---- MODULE Spec2Model ----
(***************************************************************************)
(* Versioning core of the PDF review tool: the IndexedDB store (db.ts),    *)
(* the zustand stores (document, version, annotation), the viewer's        *)
(* annotation tracking (PDFViewer.tsx), the upload (PDFUploader.tsx), the  *)
(* commit dialog (CommitDialog.tsx) and the version panel's switch         *)
(* protocol (VersionPanel.tsx).                                            *)
(*                                                                         *)
(* Every await of the source is a point where another handler may run, so  *)
(* an async handler is one action per segment between two awaits; the      *)
(* rejection of an awaited promise is the Fail variant of the segment.     *)
(* Strings that the code builds or takes apart (messages, colours, page    *)
(* text) are sequences of one-character strings.  Timestamps are left out. *)
(***************************************************************************)
EXTENDS Integers, Sequences, FiniteSets, TLC

\* ------------------------------------------------------------------ bounds
\* Version records built (persisted or in flight)
MaxVersions == 3
\* length of pendingChanges
MaxChanges == 1
\* the longest log of pending changes the tracker's own specification follows
MaxTrackerChanges == 4
\* the ids of the documents that uploads create
DocumentIds == {1, 2}
\* the ids the renderer gives to the annotations the user draws
PspdfkitIds == {1}
\* the page indices of the uploaded file
Pages == {0}

\* instance.totalPageCount
totalPageCount == Cardinality(Pages)

\* null (currentVersionId: null, instanceRef = null, switchTarget = null)
None == 0

\* ------------------------------------------------------------ pure helpers
RECURSIVE SeqOfSet(_)
\* a set of records that carry an integer id, as the sequence ordered by id
SeqOfSet(S) ==
  IF S = {} THEN <<>>
  ELSE LET m == CHOOSE x \in S : \A y \in S : x.id <= y.id
       IN <<m>> \o SeqOfSet(S \ {m})

\* Array.prototype.filter: the elements at the indexes I, in their order
RECURSIVE PickSeq(_, _)
PickSeq(s, I) ==
  IF I = {} THEN <<>>
  ELSE LET m == CHOOSE i \in I : \A j \in I : i <= j
       IN <<s[m]>> \o PickSeq(s, I \ {m})

\* generateId() returns an id that exists nowhere else; the model hands out
\* the smallest id that no part of the state refers to
FreshId(used) ==
  CHOOSE n \in 1 .. (Cardinality(used) + 1) :
    n \notin used /\ \A m \in 1 .. (n - 1) : m \in used

RECURSIVE FreshIds(_, _)
\* k successive calls of generateId()
FreshIds(used, k) ==
  IF k = 0 THEN <<>>
  ELSE <<FreshId(used)>> \o FreshIds(used \cup {FreshId(used)}, k - 1)

RECURSIVE MaxOf(_)
\* Math.max(...xs) of a non-empty set of numbers
MaxOf(S) ==
  LET x == CHOOSE y \in S : TRUE
  IN IF S = {x} THEN x
     ELSE LET m == MaxOf(S \ {x}) IN IF x > m THEN x ELSE m

\* String.prototype.trim on a sequence of characters
IsSpace(c) == c \in {" ", "\n", "\t"}

RECURSIVE trimStart(_)
trimStart(s) ==
  IF s = <<>> THEN <<>>
  ELSE IF IsSpace(Head(s)) THEN trimStart(Tail(s)) ELSE s

RECURSIVE trimEnd(_)
trimEnd(s) ==
  IF s = <<>> THEN <<>>
  ELSE IF IsSpace(s[Len(s)]) THEN trimEnd(SubSeq(s, 1, Len(s) - 1)) ELSE s

trim(s) == trimEnd(trimStart(s))

\* ------------------------------------------------- renderer-side annotations
HexDigit == <<"0", "1", "2", "3", "4", "5", "6", "7",
              "8", "9", "a", "b", "c", "d", "e", "f">>

\* Math.round(n).toString(16).padStart(2, '0') for 0 <= n <= 255
Hex2(n) == <<HexDigit[(n \div 16) + 1], HexDigit[(n % 16) + 1]>>

NoColor == [kind |-> "undefined"]

\* what the user draws (a text highlight): the raw annotation without its
\* renderer id
RawTemplates ==
  { [type |-> "pspdfkit/highlight", pageIndex |-> 0, text |-> "",
     contents |-> "", note |-> "", color |-> NoColor] }

\* what an edit in the renderer changes (the user types a comment)
RawEdits ==
  { [pageIndex |-> 0, text |-> "final", color |-> NoColor] }

mapAnnotationType(pspdfkitType) ==
  CASE pspdfkitType = "pspdfkit/highlight" -> "highlight"
    [] pspdfkitType = "pspdfkit/text-highlight" -> "highlight"
    [] pspdfkitType = "pspdfkit/note" -> "note"
    [] pspdfkitType = "pspdfkit/text" -> "freetext"
    [] pspdfkitType = "pspdfkit/ink" -> "freetext"
    [] pspdfkitType = "pspdfkit/redaction" -> "redaction"
    [] pspdfkitType = "pspdfkit/markup/highlight" -> "highlight"
    [] pspdfkitType = "pspdfkit/comment" -> "note"
    [] pspdfkitType = "pspdfkit/widget" -> "freetext"
    [] OTHER -> "freetext"

getAnnotationContents(annotation) ==
  IF annotation.text # "" THEN annotation.text
  ELSE IF annotation.contents # "" THEN annotation.contents
  ELSE IF annotation.note # "" THEN annotation.note
  ELSE ""

getAnnotationColor(annotation) ==
  IF annotation.color.kind = "rgb"
  THEN <<"#">> \o Hex2(annotation.color.r) \o Hex2(annotation.color.g)
              \o Hex2(annotation.color.b)
  ELSE <<"#", "f", "f", "e", "b", "3", "b">>

\* toTrackedAnnotation with the id that generateId() returned
toTrackedAnnotation(annotation, newId) ==
  [id |-> newId,
   type |-> mapAnnotationType(annotation.type),
   pageIndex |-> annotation.pageIndex,
   contents |-> getAnnotationContents(annotation),
   color |-> getAnnotationColor(annotation),
   pspdfkitId |-> annotation.id]

\* textLinesForPageIndex(i): the lines of page i of the uploaded file
textLinesForPageIndex(i) ==
  IF i = 0 THEN << <<"H", "i">>, <<"a">> >> ELSE << <<"p">> >>

RECURSIVE joinLines(_)
\* textLines.map(line => line.contents).join('\n')
joinLines(lines) ==
  IF lines = <<>> THEN <<>>
  ELSE IF Len(lines) = 1 THEN lines[1]
  ELSE lines[1] \o <<"\n">> \o joinLines(Tail(lines))

\* extractText: one entry per page, a failed page degraded to ''
extractText(failed) ==
  [k \in 1 .. totalPageCount |->
     [pageIndex |-> k - 1,
      text |-> IF (k - 1) \in failed THEN <<>>
               ELSE joinLines(textLinesForPageIndex(k - 1))]]

\* --------------------------------------------------------------- the state
VARIABLES
  dbDocuments,      \* db.documents: set of [id, currentVersionId]
  dbVersions,       \* db.versions: set of DBVersion records
  currentDocument,  \* useDocumentStore.currentDocument: the document's id, or None
  versions,         \* useVersionStore.versions: metadata, newest first
  currentVersionId, \* useVersionStore.currentVersionId
  annotations,      \* useAnnotationStore.annotations
  pendingChanges,   \* useAnnotationStore.pendingChanges
  switchTarget,     \* VersionPanel: the version id awaiting confirmation, or None
  isCommitting,     \* CommitDialog: isCommitting
  commit,           \* the running handleCommit: its position and locals
  upload,           \* the running processFile: its position and locals
  load,             \* the running loadPDF of the mounted PDFViewer effect
  rAnns,            \* annotations inside the live renderer instance
  appInstance,      \* page.tsx pspdfkitInstanceRef: version id it was loaded for, or None
  comparing,        \* the running handleCompare of VersionDiff: position and locals
  diffResult,       \* VersionDiff: diffResult, or NoDiff while none is shown
  diffCall,         \* the last call of computeFullDiff: its arguments and outcome
  listDelete,       \* the running handleDelete of AnnotationList: position and locals
  stale,            \* superseded loadPDF runs still inside their page-by-page sync
  storeDocuments,   \* mock API store.documents: set of [id, currentVersionId]
  storeVersions,    \* mock API store.versions: the Map's values, in insertion order
  requests,         \* mock API: the route handlers suspended at an await
  lastOp            \* the handler segment that ran last; it names the toast shown

vars == <<dbDocuments, dbVersions, currentDocument, versions, currentVersionId,
          annotations, pendingChanges, switchTarget, isCommitting, commit,
          upload, load, rAnns, appInstance, comparing, diffResult,
          diffCall, listDelete, stale, storeDocuments, storeVersions, requests,
          lastOp>>

NoDiff == [shown |-> FALSE]

NoCall == [called |-> FALSE]

dbVars == <<dbDocuments, dbVersions>>
trackerVars == <<annotations, pendingChanges>>
viewerVars == <<load, rAnns, appInstance, stale>>

Idle == [pc |-> "idle"]

\* the viewer's handlers are attached to a live instance: from addEventListener
\* until the effect's cleanup
listening == load.pc \in {"sync", "ready"}

\* ---- the ids the state refers to, by kind
ItemIds(json) == { json.items[i].id : i \in 1 .. Len(json.items) }

VersionsInFlight ==
  IF commit.pc \in {"verAdd", "docUpdate"} THEN {commit.version} ELSE {}

UsedDocumentIds ==
  { d.id : d \in dbDocuments } \cup { v.documentId : v \in dbVersions }
    \cup (IF upload.pc # "idle" THEN {upload.docId} ELSE {})
    \cup ({currentDocument} \ {None})

UsedVersionIds ==
  { v.id : v \in dbVersions \cup VersionsInFlight }
    \cup { d.currentVersionId : d \in dbDocuments }
    \cup (IF upload.pc # "idle" THEN {upload.versionId} ELSE {})

UsedPspdfkitIds ==
  { a.id : a \in rAnns }
    \cup UNION { { a.id : a \in v.pdfData } \cup ItemIds(v.annotations) :
                 v \in dbVersions \cup VersionsInFlight }
    \cup (IF commit.pc = "text"
          THEN { a.id : a \in commit.pdfData } \cup ItemIds(commit.annotations)
          ELSE {})
    \cup { annotations[i].pspdfkitId : i \in 1 .. Len(annotations) }
    \cup (IF load.pc = "sync"
          THEN { load.buf[i].pspdfkitId : i \in 1 .. Len(load.buf) } ELSE {})
    \cup UNION { { a.id : a \in s.anns }
                   \cup { s.buf[i].pspdfkitId : i \in 1 .. Len(s.buf) } :
                 s \in stale }

UsedTrackedIds ==
  { annotations[i].id : i \in 1 .. Len(annotations) }
    \cup { pendingChanges[i].annotationId : i \in 1 .. Len(pendingChanges) }
    \cup (IF load.pc = "sync"
          THEN { load.buf[i].id : i \in 1 .. Len(load.buf) } ELSE {})
    \cup UNION { { s.buf[i].id : i \in 1 .. Len(s.buf) } : s \in stale }

Init ==
  /\ dbDocuments = {}
  /\ dbVersions = {}
  /\ currentDocument = None
  /\ versions = <<>>
  /\ currentVersionId = None
  /\ annotations = <<>>
  /\ pendingChanges = <<>>
  /\ switchTarget = None
  /\ isCommitting = FALSE
  /\ commit = Idle
  /\ upload = Idle
  /\ load = Idle
  /\ rAnns = {}
  /\ appInstance = None
  /\ comparing = Idle
  /\ diffResult = NoDiff
  /\ diffCall = NoCall
  /\ listDelete = Idle
  /\ stale = {}
  /\ storeDocuments = {}
  /\ storeVersions = <<>>
  /\ requests = {}
  /\ lastOp = "init"

\* ------------------------------------------------------ useVersionStore
RECURSIVE InsertDesc(_, _)
\* v placed after every element whose versionNumber is >= its own (stable)
InsertDesc(sorted, v) ==
  IF sorted = <<>> THEN <<v>>
  ELSE IF Head(sorted).versionNumber >= v.versionNumber
       THEN <<Head(sorted)>> \o InsertDesc(Tail(sorted), v)
       ELSE <<v>> \o sorted

RECURSIVE SortDesc(_)
\* versions.sort((a, b) => b.versionNumber - a.versionNumber), a stable sort
SortDesc(s) ==
  IF s = <<>> THEN <<>>
  ELSE InsertDesc(SortDesc(SubSeq(s, 1, Len(s) - 1)), s[Len(s)])

setVersions(vs) == SortDesc(vs)

\* addVersion: the versions list it leaves (currentVersionId becomes version.id)
addVersion(vs, version) ==
  SortDesc(<<version>> \o
             PickSeq(vs, { i \in 1 .. Len(vs) : vs[i].id # version.id }))

\* the metadata of a version: everything but pdfData
Metadata(version) ==
  [id |-> version.id, documentId |-> version.documentId,
   versionNumber |-> version.versionNumber, message |-> version.message,
   annotations |-> version.annotations, textContent |-> version.textContent]

\* ----------------------------------------------------- useAnnotationStore
addAnnotation(anns, annotation) == Append(anns, annotation)

updateAnnotation(anns, id, updates) ==
  [i \in 1 .. Len(anns) |->
     IF anns[i].id = id
     THEN [anns[i] EXCEPT !.contents = updates.contents,
                          !.color = updates.color,
                          !.pageIndex = updates.pageIndex]
     ELSE anns[i]]

removeAnnotation(anns, id) ==
  PickSeq(anns, { i \in 1 .. Len(anns) : anns[i].id # id })

\* a store that adds the synced list to the one it holds
setAnnotationsMerging(anns, newAnns) == anns \o newAnns

setAnnotations(anns, newAnns) == newAnns

\* a log that takes new records at its head
addChangeFront(changes, change) == <<change>> \o changes

addChange(changes, change) == Append(changes, change)

clearChanges(changes) == <<>>

\* -------------------------------------------------------------- db.ts
\* db.versions.add(version)
\* a store that keeps one version per document and number and overwrites
dbVersionsPutByNumber(vs, version) ==
  { v \in vs : ~(v.documentId = version.documentId
                  /\ v.versionNumber = version.versionNumber) } \cup {version}

dbVersionsAdd(vs, version) == vs \cup {version}

\* db.documents.add(doc)
dbDocumentsAdd(docs, doc) == docs \cup {doc}

\* db.documents.update(id, { currentVersionId }): a missing key changes nothing
dbDocumentsUpdate(docs, id, versionId) ==
  { IF d.id = id THEN [d EXCEPT !.currentVersionId = versionId] ELSE d : d \in docs }

\* versionOps.getPdfData(versionId): the stored versions with that key
getPdfData(versionId) == { v \in dbVersions : v.id = versionId }

\* ------------------------------------------------------- CommitDialog.tsx
\* nextVersionNumber, from the version store's list
nextVersionNumber(vs) ==
  IF Len(vs) > 0 THEN MaxOf({ vs[i].versionNumber : i \in 1 .. Len(vs) }) + 1
  ELSE 1

\* JSON.stringify(currentAnnotations.map(...)): a bare array of entries
annotationsJson(currentAnnotations) ==
  [shape |-> "array",
   items |-> [i \in 1 .. Len(currentAnnotations) |->
                [id |-> currentAnnotations[i].pspdfkitId,
                 type |-> currentAnnotations[i].type,
                 pageIndex |-> currentAnnotations[i].pageIndex,
                 contents |-> currentAnnotations[i].contents,
                 color |-> currentAnnotations[i].color]]]

\* JSON.stringify(pageTexts)
textContentJson(pageTexts) == [shape |-> "array", items |-> pageTexts]

\* the messages typed into the commit dialog
Messages == { <<>>, <<" ">>, <<"m">>, <<" ", "m", " ">> }


\* ------------------------------------------------------------ PDFViewer.tsx
\* the superseded loadPDF, as the cleanup leaves it: up to PSPDFKit.load every
\* await is followed by `if (!isMounted) return`; the page-by-page sync and
\* what follows it test nothing, so a run caught inside the sync goes on
\* reading the instance the cleanup disposed
Superseded ==
  IF load.pc = "sync"
  THEN {[ver |-> load.ver, page |-> load.page, buf |-> load.buf, anns |-> rAnns]}
  ELSE {}

\* the effect keyed on versionId: cleanup of the mounted instance (isMounted =
\* false for the running load, listeners removed, dispose) and a new loadPDF
RemountViewer(versionId) ==
  /\ load' = [pc |-> "fetch", ver |-> versionId, page |-> 0, buf |-> <<>>]
  /\ rAnns' = {}
  /\ stale' = stale \cup Superseded
  /\ UNCHANGED appInstance

\* a disposed instance, written as the negated id of the version it showed
Disposed(versionId) == 0 - versionId

\* the instance the page handed to the dialogs is the one on screen
InstanceLive ==
  /\ appInstance # None
  /\ load.pc = "ready"
  /\ load.ver = appInstance

\* loadPDF up to the listeners: getPdfData, PSPDFKit.load, addEventListener
LoadFetched ==
  /\ load.pc = "fetch"
  /\ getPdfData(load.ver) # {}
  /\ LET v == CHOOSE x \in getPdfData(load.ver) : TRUE
     IN rAnns' = v.pdfData
  /\ load' = [load EXCEPT !.pc = "sync"]
  /\ lastOp' = "LoadFetched"
  /\ UNCHANGED <<dbVars, currentDocument, versions, currentVersionId, trackerVars,
                 switchTarget, isCommitting, commit, upload, appInstance, stale,
                 comparing, diffResult, diffCall, listDelete, storeDocuments, storeVersions, requests>>

\* loadPDF's catch: the data is missing or PSPDFKit.load rejects
LoadFail ==
  /\ load.pc = "fetch"
  /\ load' = [pc |-> "error", ver |-> load.ver]
  /\ lastOp' = "LoadFail"
  /\ UNCHANGED <<dbVars, currentDocument, versions, currentVersionId, trackerVars,
                 switchTarget, isCommitting, commit, upload, rAnns,
                 appInstance, stale,
                 comparing, diffResult, diffCall, listDelete, storeDocuments, storeVersions, requests>>

\* the annotations getAnnotations(pageIndex) returns, in id order
pageAnnotations(pageIndex) ==
  SeqOfSet({ a \in rAnns : a.pageIndex = pageIndex })

\* pageAnnotations.forEach(a => allAnnotations.push(toTrackedAnnotation(a)))
trackAll(raws, ids) ==
  [i \in 1 .. Len(raws) |-> toTrackedAnnotation(raws[i], ids[i])]

\* syncAnnotationsFromInstance on a document of pageCount pages: one page per
\* step (getAnnotations is awaited); a page whose read throws is skipped.
\* After the last page, in the same step: setAnnotations(allAnnotations),
\* onInstanceReady(instance).
SyncPageOf(ok, pageCount) ==
  /\ load.pc = "sync"
  /\ LET got == IF ok THEN pageAnnotations(load.page) ELSE <<>>
         buf == load.buf \o trackAll(got, FreshIds(UsedTrackedIds, Len(got)))
     IN /\ IF load.page + 1 < pageCount
           THEN /\ load' = [load EXCEPT !.page = load.page + 1, !.buf = buf]
                /\ UNCHANGED <<annotations, appInstance>>
           ELSE /\ load' = [pc |-> "ready", ver |-> load.ver]
                /\ annotations' = setAnnotations(annotations, buf)
                /\ appInstance' = load.ver
  /\ lastOp' = "SyncPage"
  /\ UNCHANGED <<dbVars, currentDocument, versions, currentVersionId, pendingChanges,
                 switchTarget, isCommitting, commit, upload, rAnns, stale,
                 comparing, diffResult, diffCall, listDelete, storeDocuments, storeVersions, requests>>

\* the sync of the one-page document
SyncPage(ok) == SyncPageOf(ok, totalPageCount)

\* a superseded run goes on with its sync: a page read of the disposed
\* instance throws (the page is skipped) or answers with what the instance
\* held.  After the last page, in the same step: setAnnotations(allAnnotations)
\* and onInstanceReady(instance), neither guarded by isMounted.
StaleSyncPage(s, ok) ==
  /\ s \in stale
  /\ LET got == IF ok THEN SeqOfSet({ a \in s.anns : a.pageIndex = s.page })
                ELSE <<>>
         buf == s.buf \o trackAll(got, FreshIds(UsedTrackedIds, Len(got)))
     IN IF s.page + 1 < totalPageCount
        THEN /\ stale' = (stale \ {s})
                            \cup {[s EXCEPT !.page = s.page + 1, !.buf = buf]}
             /\ UNCHANGED <<annotations, appInstance>>
        ELSE /\ stale' = stale \ {s}
             /\ annotations' = setAnnotations(annotations, buf)
             /\ appInstance' = Disposed(s.ver)
  /\ lastOp' = "StaleSyncPage"
  /\ UNCHANGED <<dbVars, currentDocument, versions, currentVersionId, pendingChanges,
                 switchTarget, isCommitting, commit, upload, load, rAnns,
                 comparing, diffResult, diffCall, listDelete, storeDocuments,
                 storeVersions, requests>>

\* ---- the tracker's handlers, as functions of the store's state
HasPspdfkitId(anns, pid) == \E i \in 1 .. Len(anns) : anns[i].pspdfkitId = pid

\* currentAnnotations.find(a => a.pspdfkitId === annotation.id)
existingOf(anns, pid) ==
  anns[CHOOSE i \in 1 .. Len(anns) :
         /\ anns[i].pspdfkitId = pid
         /\ \A j \in 1 .. (i - 1) : anns[j].pspdfkitId # pid]

ChangeRecord(annotationId, action, type, pageIndex, contents) ==
  [annotationId |-> annotationId, action |-> action, type |-> type,
   pageIndex |-> pageIndex, contents |-> contents]

handleAnnotationCreateAnns(anns, raw, newId) ==
  addAnnotation(anns, toTrackedAnnotation(raw, newId))

handleAnnotationCreateChanges(changes, raw, newId) ==
  LET tracked == toTrackedAnnotation(raw, newId)
  IN addChange(changes, ChangeRecord(tracked.id, "create", tracked.type,
                                     tracked.pageIndex, tracked.contents))

\* an update handler that starts tracking an annotation it does not know
handleAnnotationUpdateAnnsUpsert(anns, raw) ==
  IF HasPspdfkitId(anns, raw.id)
  THEN updateAnnotation(anns, existingOf(anns, raw.id).id,
                        [contents |-> getAnnotationContents(raw),
                         color |-> getAnnotationColor(raw),
                         pageIndex |-> raw.pageIndex])
  ELSE addAnnotation(anns, toTrackedAnnotation(raw, FreshId(UsedTrackedIds)))

handleAnnotationUpdateAnns(anns, raw) ==
  IF HasPspdfkitId(anns, raw.id)
  THEN updateAnnotation(anns, existingOf(anns, raw.id).id,
                        [contents |-> getAnnotationContents(raw),
                         color |-> getAnnotationColor(raw),
                         pageIndex |-> raw.pageIndex])
  ELSE anns

handleAnnotationUpdateChanges(anns, changes, raw) ==
  IF HasPspdfkitId(anns, raw.id)
  THEN LET existing == existingOf(anns, raw.id)
       IN addChange(changes, ChangeRecord(existing.id, "update", existing.type,
                                          raw.pageIndex, getAnnotationContents(raw)))
  ELSE changes

handleAnnotationDeleteAnns(anns, raw) ==
  IF HasPspdfkitId(anns, raw.id)
  THEN removeAnnotation(anns, existingOf(anns, raw.id).id)
  ELSE anns

\* a delete record filled from the event's payload
handleAnnotationDeleteChangesFromPayload(anns, changes, raw) ==
  IF HasPspdfkitId(anns, raw.id)
  THEN LET existing == existingOf(anns, raw.id)
       IN addChange(changes, ChangeRecord(existing.id, "delete", existing.type,
                                          raw.pageIndex, raw.contents))
  ELSE changes

handleAnnotationDeleteChanges(anns, changes, raw) ==
  IF HasPspdfkitId(anns, raw.id)
  THEN LET existing == existingOf(anns, raw.id)
       IN addChange(changes, ChangeRecord(existing.id, "delete", existing.type,
                                          existing.pageIndex, existing.contents))
  ELSE changes

\* ---- renderer events: the renderer changes its annotation and calls the
\* handler synchronously
RendererCreate(tpl) ==
  /\ listening
  /\ LET raw == [id |-> FreshId(UsedPspdfkitIds), type |-> tpl.type, pageIndex |-> tpl.pageIndex,
                 text |-> tpl.text, contents |-> tpl.contents, note |-> tpl.note,
                 color |-> tpl.color]
     IN /\ rAnns' = rAnns \cup {raw}
        /\ annotations' = handleAnnotationCreateAnns(annotations, raw,
                                                     FreshId(UsedTrackedIds))
        /\ pendingChanges' = handleAnnotationCreateChanges(pendingChanges, raw,
                                                           FreshId(UsedTrackedIds))
  /\ lastOp' = "RendererCreate"
  /\ UNCHANGED <<dbVars, currentDocument, versions, currentVersionId, switchTarget,
                 isCommitting, commit, upload, load, appInstance, stale,
                 comparing, diffResult, diffCall, listDelete, storeDocuments, storeVersions, requests>>

RendererUpdate(old, edit) ==
  /\ listening
  /\ old \in rAnns
  /\ LET raw == [old EXCEPT !.pageIndex = edit.pageIndex, !.text = edit.text,
                            !.color = edit.color]
     IN /\ rAnns' = (rAnns \ {old}) \cup {raw}
        /\ annotations' = handleAnnotationUpdateAnns(annotations, raw)
        /\ pendingChanges' = handleAnnotationUpdateChanges(annotations, pendingChanges, raw)
  /\ lastOp' = "RendererUpdate"
  /\ UNCHANGED <<dbVars, currentDocument, versions, currentVersionId, switchTarget,
                 isCommitting, commit, upload, load, appInstance, stale,
                 comparing, diffResult, diffCall, listDelete, storeDocuments, storeVersions, requests>>

RendererDelete(raw) ==
  /\ listening
  /\ raw \in rAnns
  /\ rAnns' = rAnns \ {raw}
  /\ annotations' = handleAnnotationDeleteAnns(annotations, raw)
  /\ pendingChanges' = handleAnnotationDeleteChanges(annotations, pendingChanges, raw)
  /\ lastOp' = "RendererDelete"
  /\ UNCHANGED <<dbVars, currentDocument, versions, currentVersionId, switchTarget,
                 isCommitting, commit, upload, load, appInstance, stale,
                 comparing, diffResult, diffCall, listDelete, storeDocuments, storeVersions, requests>>


\* ---------------------------------------------------------- PDFUploader.tsx
InitialUploadMessage ==
  <<"I", "n", "i", "t", "i", "a", "l", " ", "u", "p", "l", "o", "a", "d">>

\* the Version record processFile builds: annotations '[]', textContent ''
InitialVersion(versionId, docId) ==
  [id |-> versionId, documentId |-> docId, versionNumber |-> 1,
   message |-> InitialUploadMessage, pdfData |-> {},
   annotations |-> [shape |-> "array", items |-> <<>>],
   textContent |-> [shape |-> "empty"]]

\* processFile up to `await documentOps.create(document)`; the uploader is on
\* screen only while there is no current document.  (A rejection of
\* file.arrayBuffer() leaves the same state as one of documentOps.create.)
UploadStart ==
  /\ currentDocument = None
  /\ upload.pc = "idle"
  /\ FreshId(UsedDocumentIds) \in DocumentIds
  /\ Cardinality(UsedVersionIds) < MaxVersions
  /\ upload' = [pc |-> "docAdd", docId |-> FreshId(UsedDocumentIds),
                versionId |-> FreshId(UsedVersionIds)]
  /\ lastOp' = "UploadStart"
  /\ UNCHANGED <<dbVars, currentDocument, versions, currentVersionId, trackerVars,
                 switchTarget, isCommitting, commit, viewerVars,
                 comparing, diffResult, diffCall, listDelete, storeDocuments, storeVersions, requests>>

\* documentOps.create resolved; versionOps.create starts with db.versions.add
UploadDocAdded ==
  /\ upload.pc = "docAdd"
  /\ dbDocuments' = dbDocumentsAdd(dbDocuments,
                      [id |-> upload.docId, currentVersionId |-> upload.versionId])
  /\ upload' = [upload EXCEPT !.pc = "verAdd"]
  /\ lastOp' = "UploadDocAdded"
  /\ UNCHANGED <<dbVersions, currentDocument, versions, currentVersionId, trackerVars,
                 switchTarget, isCommitting, commit, viewerVars,
                 comparing, diffResult, diffCall, listDelete, storeDocuments, storeVersions, requests>>

\* db.versions.add resolved; db.documents.update is awaited next
UploadVerAdded ==
  /\ upload.pc = "verAdd"
  /\ dbVersions' = dbVersionsAdd(dbVersions, InitialVersion(upload.versionId, upload.docId))
  /\ upload' = [upload EXCEPT !.pc = "docUpdate"]
  /\ lastOp' = "UploadVerAdded"
  /\ UNCHANGED <<dbDocuments, currentDocument, versions, currentVersionId, trackerVars,
                 switchTarget, isCommitting, commit, viewerVars,
                 comparing, diffResult, diffCall, listDelete, storeDocuments, storeVersions, requests>>

\* db.documents.update resolved: addDocument, setVersions([metadata]),
\* addVersion(metadata), toast.success; the viewer mounts on the new version
UploadDone ==
  /\ upload.pc = "docUpdate"
  /\ dbDocuments' = dbDocumentsUpdate(dbDocuments, upload.docId, upload.versionId)
  /\ currentDocument' = upload.docId
  /\ LET metadata == Metadata(InitialVersion(upload.versionId, upload.docId))
     IN versions' = addVersion(setVersions(<<metadata>>), metadata)
  /\ currentVersionId' = upload.versionId
  /\ RemountViewer(upload.versionId)
  /\ upload' = Idle
  /\ lastOp' = "UploadDone"
  /\ UNCHANGED <<dbVersions, trackerVars, switchTarget, isCommitting, commit,
                 comparing, diffResult, diffCall, listDelete, storeDocuments, storeVersions, requests>>

\* processFile's catch and finally: an awaited write rejected
UploadFail ==
  /\ upload.pc \in {"docAdd", "verAdd", "docUpdate"}
  /\ upload' = Idle
  /\ lastOp' = "UploadFail"
  /\ UNCHANGED <<dbVars, currentDocument, versions, currentVersionId, trackerVars,
                 switchTarget, isCommitting, commit, viewerVars,
                 comparing, diffResult, diffCall, listDelete, storeDocuments, storeVersions, requests>>

\* --------------------------------------------------------- CommitDialog.tsx
\* handleCommit's guard: `if (!instance || !currentDocument || !message.trim()) return`
\* a guard that tests the message without trimming it
CommitGuardNoTrim(message) ==
  /\ appInstance # None
  /\ currentDocument # None
  /\ message # <<>>

CommitGuard(message) ==
  /\ appInstance # None
  /\ currentDocument # None
  /\ trim(message) # <<>>

\* the click that the guard turns away: nothing happens
HandleCommitIgnored(message) ==
  /\ ~isCommitting
  /\ switchTarget = None
  /\ ~CommitGuard(message)
  /\ lastOp' = "HandleCommitIgnored"
  /\ UNCHANGED <<dbVars, currentDocument, versions, currentVersionId, trackerVars,
                 switchTarget, isCommitting, commit, upload, viewerVars,
                 comparing, diffResult, diffCall, listDelete, storeDocuments, storeVersions, requests>>

\* a handler whose button stays enabled while a commit is running
HandleCommitReentrant(message) ==
  /\ switchTarget = None
  /\ CommitGuard(message)
  /\ Cardinality(UsedVersionIds) < MaxVersions
  /\ isCommitting' = TRUE
  /\ commit' = [pc |-> "export", message |-> trim(message),
                documentId |-> currentDocument,
                versionNumber |-> nextVersionNumber(versions)]
  /\ lastOp' = "HandleCommit"
  /\ UNCHANGED <<dbVars, currentDocument, versions, currentVersionId, trackerVars,
                 switchTarget, upload, viewerVars,
                 comparing, diffResult, diffCall, listDelete, storeDocuments, storeVersions, requests>>

\* handleCommit up to `await instance.exportPDF()`; the button is disabled
\* while isCommitting.  nextVersionNumber is the value of the last render.
HandleCommit(message) ==
  /\ ~isCommitting
  /\ switchTarget = None
  /\ CommitGuard(message)
  /\ Cardinality(UsedVersionIds) < MaxVersions
  /\ isCommitting' = TRUE
  /\ commit' = [pc |-> "export", message |-> trim(message),
                documentId |-> currentDocument,
                versionNumber |-> nextVersionNumber(versions)]
  /\ lastOp' = "HandleCommit"
  /\ UNCHANGED <<dbVars, currentDocument, versions, currentVersionId, trackerVars,
                 switchTarget, upload, viewerVars,
                 comparing, diffResult, diffCall, listDelete, storeDocuments, storeVersions, requests>>

\* the log cleared as soon as the snapshot is taken, before anything is stored
CommitExportedEager ==
  /\ commit.pc = "export"
  /\ InstanceLive
  /\ commit' = [pc |-> "text", message |-> commit.message,
                documentId |-> commit.documentId,
                versionNumber |-> commit.versionNumber,
                pdfData |-> rAnns,
                annotations |-> annotationsJson(annotations)]
  /\ pendingChanges' = clearChanges(pendingChanges)
  /\ lastOp' = "CommitExported"
  /\ UNCHANGED <<dbVars, currentDocument, versions, currentVersionId, annotations,
                 switchTarget, isCommitting, upload, viewerVars,
                 comparing, diffResult, diffCall, listDelete, storeDocuments, storeVersions, requests>>

\* exportPDF resolved (only a live instance exports); the annotation snapshot
\* is read from the annotation store, then extractText starts
CommitExported ==
  /\ commit.pc = "export"
  /\ InstanceLive
  /\ commit' = [pc |-> "text", message |-> commit.message,
                documentId |-> commit.documentId,
                versionNumber |-> commit.versionNumber,
                pdfData |-> rAnns,
                annotations |-> annotationsJson(annotations)]
  /\ lastOp' = "CommitExported"
  /\ UNCHANGED <<dbVars, currentDocument, versions, currentVersionId, trackerVars,
                 switchTarget, isCommitting, upload, viewerVars,
                 comparing, diffResult, diffCall, listDelete, storeDocuments, storeVersions, requests>>

\* the Version record handleCommit builds
BuildVersion(c, versionId, pageTexts) ==
  [id |-> versionId, documentId |-> c.documentId,
   versionNumber |-> c.versionNumber, message |-> c.message,
   pdfData |-> c.pdfData, annotations |-> c.annotations,
   textContent |-> textContentJson(pageTexts)]

\* extractText finished (the pages in `failed` threw and became ''), the
\* record is built and versionOps.create starts with db.versions.add
CommitTextExtracted(failed) ==
  /\ commit.pc = "text"
  /\ commit' = [pc |-> "verAdd",
                version |-> BuildVersion(commit, FreshId(UsedVersionIds),
                                         extractText(failed))]
  /\ lastOp' = "CommitTextExtracted"
  /\ UNCHANGED <<dbVars, currentDocument, versions, currentVersionId, trackerVars,
                 switchTarget, isCommitting, upload, viewerVars,
                 comparing, diffResult, diffCall, listDelete, storeDocuments, storeVersions, requests>>

\* db.versions.add resolved; db.documents.update is awaited next
CommitVerAdded ==
  /\ commit.pc = "verAdd"
  /\ dbVersions' = dbVersionsAdd(dbVersions, commit.version)
  /\ commit' = [commit EXCEPT !.pc = "docUpdate"]
  /\ lastOp' = "CommitVerAdded"
  /\ UNCHANGED <<dbDocuments, currentDocument, versions, currentVersionId, trackerVars,
                 switchTarget, isCommitting, upload, viewerVars,
                 comparing, diffResult, diffCall, listDelete, storeDocuments, storeVersions, requests>>

\* a success path that calls the store's reset() where clearChanges() belongs
CommitDoneResetting ==
  /\ commit.pc = "docUpdate"
  /\ dbDocuments' = dbDocumentsUpdate(dbDocuments, commit.version.documentId,
                                      commit.version.id)
  /\ versions' = addVersion(versions, Metadata(commit.version))
  /\ currentVersionId' = commit.version.id
  /\ pendingChanges' = <<>>
  /\ annotations' = <<>>
  /\ RemountViewer(commit.version.id)
  /\ isCommitting' = FALSE
  /\ commit' = Idle
  /\ lastOp' = "CommitDone"
  /\ UNCHANGED <<dbVersions, currentDocument, switchTarget, upload,
                 comparing, diffResult, diffCall, listDelete, storeDocuments, storeVersions, requests>>

\* db.documents.update resolved: addVersion, clearChanges, toast.success,
\* finally setIsCommitting(false); the viewer reloads on the new version
CommitDone ==
  /\ commit.pc = "docUpdate"
  /\ dbDocuments' = dbDocumentsUpdate(dbDocuments, commit.version.documentId,
                                      commit.version.id)
  /\ versions' = addVersion(versions, Metadata(commit.version))
  /\ currentVersionId' = commit.version.id
  /\ pendingChanges' = clearChanges(pendingChanges)
  /\ RemountViewer(commit.version.id)
  /\ isCommitting' = FALSE
  /\ commit' = Idle
  /\ lastOp' = "CommitDone"
  /\ UNCHANGED <<dbVersions, currentDocument, annotations, switchTarget, upload,
                 comparing, diffResult, diffCall, listDelete, storeDocuments, storeVersions, requests>>

\* a catch block that also resets the tracker's log
CommitFailClearing ==
  /\ commit.pc \in {"export", "verAdd", "docUpdate"}
  /\ pendingChanges' = clearChanges(pendingChanges)
  /\ isCommitting' = FALSE
  /\ commit' = Idle
  /\ lastOp' = "CommitFail"
  /\ UNCHANGED <<dbVars, currentDocument, versions, currentVersionId, annotations,
                 switchTarget, upload, viewerVars,
                 comparing, diffResult, diffCall, listDelete, storeDocuments, storeVersions, requests>>

\* a catch block with no finally: the flag is never lowered after a failure
CommitFailKeepingFlag ==
  /\ commit.pc \in {"export", "verAdd", "docUpdate"}
  /\ commit' = Idle
  /\ lastOp' = "CommitFail"
  /\ UNCHANGED <<dbVars, currentDocument, versions, currentVersionId, trackerVars,
                 switchTarget, isCommitting, upload, viewerVars,
                 comparing, diffResult, diffCall, listDelete, storeDocuments, storeVersions, requests>>

\* handleCommit's catch and finally: exportPDF or a write of create rejected
CommitFail ==
  /\ commit.pc \in {"export", "verAdd", "docUpdate"}
  /\ isCommitting' = FALSE
  /\ commit' = Idle
  /\ lastOp' = "CommitFail"
  /\ UNCHANGED <<dbVars, currentDocument, versions, currentVersionId, trackerVars,
                 switchTarget, upload, viewerVars,
                 comparing, diffResult, diffCall, listDelete, storeDocuments, storeVersions, requests>>

\* --------------------------------------------------------- VersionPanel.tsx
VersionIds == { versions[i].id : i \in 1 .. Len(versions) }

\* a click handler that asks for no confirmation
HandleVersionClickNoConfirm(id) ==
  /\ id \in VersionIds
  /\ switchTarget = None
  /\ ~isCommitting
  /\ IF id = currentVersionId
     THEN /\ lastOp' = "ClickCurrent"
          /\ UNCHANGED <<currentVersionId, switchTarget, viewerVars>>
     ELSE /\ currentVersionId' = id
          /\ RemountViewer(id)
          /\ lastOp' = "ClickSwitch"
          /\ UNCHANGED switchTarget
  /\ UNCHANGED <<dbVars, currentDocument, versions, trackerVars, isCommitting,
                 commit, upload,
                 comparing, diffResult, diffCall, listDelete, storeDocuments, storeVersions, requests>>

\* a click handler without the early return for the current version
HandleVersionClickNoReturn(id) ==
  /\ id \in VersionIds
  /\ switchTarget = None
  /\ ~isCommitting
  /\ IF Len(pendingChanges) > 0
     THEN /\ switchTarget' = id
          /\ lastOp' = IF id = currentVersionId THEN "ClickCurrent" ELSE "ClickConfirm"
          /\ UNCHANGED <<currentVersionId, viewerVars>>
     ELSE /\ currentVersionId' = id
          /\ IF id # currentVersionId THEN RemountViewer(id) ELSE UNCHANGED viewerVars
          /\ lastOp' = IF id = currentVersionId THEN "ClickCurrent" ELSE "ClickSwitch"
          /\ UNCHANGED switchTarget
  /\ UNCHANGED <<dbVars, currentDocument, versions, trackerVars, isCommitting,
                 commit, upload,
                 comparing, diffResult, diffCall, listDelete, storeDocuments, storeVersions, requests>>

\* handleVersionClick on a row of the list.  Both dialogs are modal: the list
\* takes no click while the confirmation is open or a commit is running.
HandleVersionClick(id) ==
  /\ id \in VersionIds
  /\ switchTarget = None
  /\ ~isCommitting
  /\ IF id = currentVersionId
     THEN /\ lastOp' = "ClickCurrent"
          /\ UNCHANGED <<currentVersionId, switchTarget, viewerVars>>
     ELSE IF Len(pendingChanges) > 0
     THEN /\ switchTarget' = id
          /\ lastOp' = "ClickConfirm"
          /\ UNCHANGED <<currentVersionId, viewerVars>>
     ELSE /\ currentVersionId' = id
          /\ RemountViewer(id)
          /\ lastOp' = "ClickSwitch"
          /\ UNCHANGED switchTarget
  /\ UNCHANGED <<dbVars, currentDocument, versions, trackerVars, isCommitting,
                 commit, upload,
                 comparing, diffResult, diffCall, listDelete, storeDocuments, storeVersions, requests>>

\* a discard that switches and forgets clearChanges()
DiscardKeepingChanges ==
  /\ switchTarget # None
  /\ currentVersionId' = switchTarget
  /\ IF switchTarget # currentVersionId
     THEN RemountViewer(switchTarget)
     ELSE UNCHANGED viewerVars
  /\ switchTarget' = None
  /\ lastOp' = "DiscardAndSwitch"
  /\ UNCHANGED <<dbVars, currentDocument, versions, trackerVars, isCommitting,
                 commit, upload,
                 comparing, diffResult, diffCall, listDelete, storeDocuments, storeVersions, requests>>

\* handleDiscardAndSwitch: the dialog's "Discard & Switch"
HandleDiscardAndSwitch ==
  /\ switchTarget # None
  /\ pendingChanges' = clearChanges(pendingChanges)
  /\ currentVersionId' = switchTarget
  /\ IF switchTarget # currentVersionId
     THEN RemountViewer(switchTarget)
     ELSE UNCHANGED viewerVars
  /\ switchTarget' = None
  /\ lastOp' = "DiscardAndSwitch"
  /\ UNCHANGED <<dbVars, currentDocument, versions, annotations, isCommitting,
                 commit, upload,
                 comparing, diffResult, diffCall, listDelete, storeDocuments, storeVersions, requests>>

\* a cancel that resets the tracker's log with the dialog
CancelSwitchClearing ==
  /\ switchTarget # None
  /\ switchTarget' = None
  /\ pendingChanges' = clearChanges(pendingChanges)
  /\ lastOp' = "CancelSwitch"
  /\ UNCHANGED <<dbVars, currentDocument, versions, currentVersionId, annotations,
                 isCommitting, commit, upload, viewerVars,
                 comparing, diffResult, diffCall, listDelete, storeDocuments, storeVersions, requests>>

\* the dialog's Cancel (or closing it): setSwitchTarget(null)
CancelSwitch ==
  /\ switchTarget # None
  /\ switchTarget' = None
  /\ lastOp' = "CancelSwitch"
  /\ UNCHANGED <<dbVars, currentDocument, versions, currentVersionId, trackerVars,
                 isCommitting, commit, upload, viewerVars,
                 comparing, diffResult, diffCall, listDelete, storeDocuments, storeVersions, requests>>

\* ------------------------------------------------------------ the system
\* the model follows a log of pending changes up to a given length
EventBudget(max) == Len(pendingChanges) < max

\* no page-by-page sync is under way.  Here the user leaves the version list
\* alone while the viewer syncs; a version change during the sync, and the
\* superseded run it leaves behind, are the subject of ReloadSpec.
SyncSettled == load.pc # "sync"

Next ==
  \/ UploadStart
  \/ UploadDocAdded
  \/ UploadVerAdded
  \/ UploadDone
  \/ UploadFail
  \/ LoadFetched
  \/ LoadFail
  \/ \E ok \in BOOLEAN : SyncPage(ok)
  \/ \E tpl \in RawTemplates :
       /\ EventBudget(MaxChanges)
       /\ FreshId(UsedPspdfkitIds) \in PspdfkitIds
       /\ RendererCreate(tpl)
  \/ \E old \in rAnns, edit \in RawEdits :
       EventBudget(MaxChanges) /\ RendererUpdate(old, edit)
  \/ \E raw \in rAnns :
       EventBudget(MaxChanges) /\ RendererDelete(raw)
  \/ \E m \in Messages : HandleCommitIgnored(m)
  \/ \E m \in Messages : HandleCommit(m)
  \/ CommitExported
  \/ CommitTextExtracted({})
  \/ CommitVerAdded
  \/ CommitDone
  \/ CommitFail
  \/ \E id \in VersionIds : SyncSettled /\ HandleVersionClick(id)
  \/ SyncSettled /\ HandleDiscardAndSwitch
  \/ CancelSwitch

Spec == Init /\ [][Next]_vars

\* ------------------------------------------- the tracker, on a longer leash
\* The change tracker alone: one uploaded document is on screen, its viewer
\* has loaded, and only renderer events happen; the log may grow to
\* MaxTrackerChanges records over annotations of two kinds on two pages.
TrackerPspdfkitIds == {1, 2}

TrackerTemplates ==
  { [type |-> "pspdfkit/highlight", pageIndex |-> 0, text |-> "",
     contents |-> "", note |-> "", color |-> NoColor],
    [type |-> "pspdfkit/note", pageIndex |-> 1, text |-> "",
     contents |-> "", note |-> "draft",
     color |-> [kind |-> "rgb", r |-> 255, g |-> 0, b |-> 16]] }

TrackerEdits ==
  { [pageIndex |-> 0, text |-> "final", color |-> NoColor],
    [pageIndex |-> 1, text |-> "", color |-> [kind |-> "rgb", r |-> 0, g |-> 128, b |-> 255]] }

\* the state after processFile and loadPDF have run for a first upload
TrackerInit ==
  /\ dbDocuments = {[id |-> 1, currentVersionId |-> 1]}
  /\ dbVersions = {InitialVersion(1, 1)}
  /\ currentDocument = 1
  /\ versions = <<Metadata(InitialVersion(1, 1))>>
  /\ currentVersionId = 1
  /\ annotations = <<>>
  /\ pendingChanges = <<>>
  /\ switchTarget = None
  /\ isCommitting = FALSE
  /\ commit = Idle
  /\ upload = Idle
  /\ load = [pc |-> "ready", ver |-> 1]
  /\ rAnns = {}
  /\ appInstance = 1
  /\ comparing = Idle
  /\ diffResult = NoDiff
  /\ diffCall = NoCall
  /\ listDelete = Idle
  /\ stale = {}
  /\ storeDocuments = {}
  /\ storeVersions = <<>>
  /\ requests = {}
  /\ lastOp = "SyncPage"

TrackerNext ==
  \/ \E tpl \in TrackerTemplates :
       /\ EventBudget(MaxTrackerChanges)
       /\ FreshId(UsedPspdfkitIds) \in TrackerPspdfkitIds
       /\ RendererCreate(tpl)
  \/ \E old \in rAnns, edit \in TrackerEdits :
       EventBudget(MaxTrackerChanges) /\ RendererUpdate(old, edit)
  \/ \E raw \in rAnns :
       EventBudget(MaxTrackerChanges) /\ RendererDelete(raw)

TrackerSpec == TrackerInit /\ [][TrackerNext]_vars

\* ------------------------------------------------------------ diff engine
\* versionOps.getById: the stored record, or none
HasVersion(id) == \E v \in dbVersions : v.id = id

getById(id) == CHOOSE v \in dbVersions : v.id = id

\* a parser that knows the plain array only
parseAnnotationsArrayOnly(json) ==
  IF json.shape = "array"
  THEN [i \in 1 .. Len(json.items) |->
          [id |-> json.items[i].id,
           type |-> json.items[i].type,
           pageIndex |-> json.items[i].pageIndex,
           contents |-> json.items[i].contents,
           color |-> json.items[i].color]]
  ELSE <<>>

\* parseAnnotations: an object with an annotations array (Instant JSON) gives
\* one entry per element, its contents taken from the text field when the
\* element has one; a plain JSON array gives one entry per element with the
\* five fields the diff reads; any other input gives no entries. The
\* boundingBox of an Instant JSON entry, which the diff never reads, is left out.
parseAnnotations(json) ==
  IF json.shape = "instant"
  THEN [i \in 1 .. Len(json.items) |->
          [id |-> json.items[i].id,
           type |-> json.items[i].type,
           pageIndex |-> json.items[i].pageIndex,
           contents |-> IF "text" \in DOMAIN json.items[i]
                        THEN json.items[i].text
                        ELSE json.items[i].contents,
           color |-> json.items[i].color]]
  ELSE IF json.shape = "array"
  THEN [i \in 1 .. Len(json.items) |->
          [id |-> json.items[i].id,
           type |-> json.items[i].type,
           pageIndex |-> json.items[i].pageIndex,
           contents |-> json.items[i].contents,
           color |-> json.items[i].color]]
  ELSE <<>>

\* new Map(entries.map((a) => [a.id, a])): one entry per id, in the order the
\* ids first appear, each id holding the last entry given for it
MapOf(entries) ==
  LET n == Len(entries)
      firsts == { i \in 1 .. n : \A j \in 1 .. (i - 1) : entries[j].id # entries[i].id }
      lastOf(i) == CHOOSE k \in 1 .. n :
                     /\ entries[k].id = entries[i].id
                     /\ \A j \in (k + 1) .. n : entries[j].id # entries[i].id
  IN PickSeq([i \in 1 .. n |-> entries[lastOf(i)]], firsts)

MapHas(map, id) == \E i \in 1 .. Len(map) : map[i].id = id

MapGet(map, id) == map[CHOOSE i \in 1 .. Len(map) : map[i].id = id]

\* the comparison that ignores the annotation's type
annotationChangedIgnoringType(oldAnn, newAnn) ==
  \/ oldAnn.contents # newAnn.contents
  \/ oldAnn.color # newAnn.color
  \/ oldAnn.pageIndex # newAnn.pageIndex

\* the comparison that sees a page change only when the page number grows
annotationChangedForwardOnly(oldAnn, newAnn) ==
  \/ oldAnn.contents # newAnn.contents
  \/ oldAnn.color # newAnn.color
  \/ oldAnn.pageIndex < newAnn.pageIndex
  \/ oldAnn.type # newAnn.type

\* the test of the modified branch of computeAnnotationDiff
annotationChanged(oldAnn, newAnn) ==
  \/ oldAnn.contents # newAnn.contents
  \/ oldAnn.color # newAnn.color
  \/ oldAnn.pageIndex # newAnn.pageIndex
  \/ oldAnn.type # newAnn.type

\* computeAnnotationDiffs of the diff route: the two loops over the maps
computeAnnotationDiffs(base, compare) ==
  LET baseMap == MapOf(parseAnnotations(base.annotations))
      compareMap == MapOf(parseAnnotations(compare.annotations))
  IN [added |->
        PickSeq(compareMap, { i \in 1 .. Len(compareMap) :
                                ~MapHas(baseMap, compareMap[i].id) }),
      deleted |->
        PickSeq(baseMap, { i \in 1 .. Len(baseMap) :
                             ~MapHas(compareMap, baseMap[i].id) }),
      modified |->
        PickSeq([i \in 1 .. Len(compareMap) |->
                   IF MapHas(baseMap, compareMap[i].id)
                   THEN [old |-> MapGet(baseMap, compareMap[i].id),
                         new |-> compareMap[i]]
                   ELSE [new |-> compareMap[i]]],
                { i \in 1 .. Len(compareMap) :
                    /\ MapHas(baseMap, compareMap[i].id)
                    /\ annotationChanged(MapGet(baseMap, compareMap[i].id),
                                         compareMap[i]) })]

\* computeAnnotationDiff of lib/diff-utils.ts: both versions are read from the
\* store, a missing one is an error, and the same two loops classify the rest
computeAnnotationDiff(baseVersionId, compareVersionId) ==
  IF ~HasVersion(baseVersionId) \/ ~HasVersion(compareVersionId)
  THEN [ok |-> FALSE]
  ELSE [ok |-> TRUE,
        value |-> computeAnnotationDiffs(getById(baseVersionId),
                                         getById(compareVersionId))]

\* -------------------------------------------------------------- text diff
\* parseTextContent: a JSON array is returned as it is, anything else (the
\* empty string of the first upload too) gives no pages
parseTextContent(json) ==
  IF json.shape = "array" THEN json.items ELSE <<>>

\* pages.find((p) => p.pageIndex === i)?.text ?? ''
pageTextOf(pages, i) ==
  LET hits == { k \in 1 .. Len(pages) : pages[k].pageIndex = i }
  IN IF hits = {} THEN <<>>
     ELSE pages[CHOOSE k \in hits : \A j \in hits : k <= j].text

\* the segment operations of diff-match-patch
DIFF_DELETE == -1

DIFF_INSERT == 1

DIFF_EQUAL == 0

\* diff_commonPrefix and diff_commonSuffix of diff-match-patch
diff_commonPrefix(text1, text2) ==
  LET n == IF Len(text1) < Len(text2) THEN Len(text1) ELSE Len(text2)
  IN MaxOf({ k \in 0 .. n : \A j \in 1 .. k : text1[j] = text2[j] })

diff_commonSuffix(text1, text2) ==
  LET n == IF Len(text1) < Len(text2) THEN Len(text1) ELSE Len(text2)
  IN MaxOf({ k \in 0 .. n :
               \A j \in 1 .. k :
                 text1[Len(text1) - k + j] = text2[Len(text2) - k + j] })

\* the positions at which short occurs inside long
OccurrencesOf(short, long) ==
  { i \in 0 .. (Len(long) - Len(short)) :
      SubSeq(long, i + 1, i + Len(short)) = short }

\* diff_compute_ of diff-match-patch for two texts without a common prefix or
\* suffix: one side empty, the shorter text inside the longer one, or a
\* single character against a text that does not hold it. Texts that need
\* the half-match or bisect search are outside the texts followed here.
diff_compute(text1, text2) ==
  LET long == IF Len(text1) > Len(text2) THEN text1 ELSE text2
      short == IF Len(text1) > Len(text2) THEN text2 ELSE text1
      op == IF Len(text1) > Len(text2) THEN DIFF_DELETE ELSE DIFF_INSERT
  IN CASE text1 = <<>> -> << <<DIFF_INSERT, text2>> >>
       [] text1 # <<>> /\ text2 = <<>> -> << <<DIFF_DELETE, text1>> >>
       [] text1 # <<>> /\ text2 # <<>> /\ OccurrencesOf(short, long) # {} ->
            LET i == CHOOSE k \in OccurrencesOf(short, long) :
                       \A j \in OccurrencesOf(short, long) : k <= j
            IN << <<op, SubSeq(long, 1, i)>>,
                  <<DIFF_EQUAL, short>>,
                  <<op, SubSeq(long, i + Len(short) + 1, Len(long))>> >>
       [] text1 # <<>> /\ text2 # <<>> /\ OccurrencesOf(short, long) = {}
            /\ Len(short) = 1 ->
            << <<DIFF_DELETE, text1>>, <<DIFF_INSERT, text2>> >>

\* diff_cleanupMerge as far as diff_main needs it here: segments with no text
\* are dropped
RECURSIVE dropEmpty(_)
dropEmpty(diffs) ==
  IF diffs = <<>> THEN <<>>
  ELSE IF Head(diffs)[2] = <<>> THEN dropEmpty(Tail(diffs))
  ELSE <<Head(diffs)>> \o dropEmpty(Tail(diffs))

\* diff_main of diff-match-patch: equal texts, then the common prefix and
\* suffix around the diff of the middle
diff_main(text1, text2) ==
  IF text1 = text2
  THEN IF text1 # <<>> THEN << <<DIFF_EQUAL, text1>> >> ELSE <<>>
  ELSE LET pre == diff_commonPrefix(text1, text2)
           rest1 == SubSeq(text1, pre + 1, Len(text1))
           rest2 == SubSeq(text2, pre + 1, Len(text2))
           suf == diff_commonSuffix(rest1, rest2)
           mid1 == SubSeq(rest1, 1, Len(rest1) - suf)
           mid2 == SubSeq(rest2, 1, Len(rest2) - suf)
       IN dropEmpty(<< <<DIFF_EQUAL, SubSeq(text1, 1, pre)>> >>
                    \o diff_compute(mid1, mid2)
                    \o << <<DIFF_EQUAL,
                            SubSeq(rest1, Len(rest1) - suf + 1, Len(rest1))>> >>)

\* what diff_cleanupSemantic looks for: an equality with edits on both sides
\* that is no longer than them, and a deletion whose end is the start of the
\* insertion after it
editsBefore(diffs, k) ==
  MaxOf({0} \cup { Len(diffs[j][2]) : j \in { i \in 1 .. (k - 1) : diffs[i][1] # DIFF_EQUAL } })

editsAfter(diffs, k) ==
  MaxOf({0} \cup { Len(diffs[j][2]) :
                     j \in { i \in (k + 1) .. Len(diffs) : diffs[i][1] # DIFF_EQUAL } })

weakEquality(diffs, k) ==
  /\ diffs[k][1] = DIFF_EQUAL
  /\ Len(diffs[k][2]) <= editsBefore(diffs, k)
  /\ Len(diffs[k][2]) <= editsAfter(diffs, k)

overlapping(diffs, k) ==
  /\ k < Len(diffs)
  /\ diffs[k][1] = DIFF_DELETE
  /\ diffs[k + 1][1] = DIFF_INSERT
  /\ \/ diff_commonSuffix(diffs[k][2], diffs[k + 1][2]) > 0
     \/ \E n \in 1 .. Len(diffs[k][2]) :
          /\ n <= Len(diffs[k + 1][2])
          /\ SubSeq(diffs[k][2], Len(diffs[k][2]) - n + 1, Len(diffs[k][2]))
               = SubSeq(diffs[k + 1][2], 1, n)
     \/ \E n \in 1 .. Len(diffs[k + 1][2]) :
          /\ n <= Len(diffs[k][2])
          /\ SubSeq(diffs[k + 1][2], Len(diffs[k + 1][2]) - n + 1, Len(diffs[k + 1][2]))
               = SubSeq(diffs[k][2], 1, n)

\* an edit between two equalities, which the lossless pass may slide sideways
slidable(diffs, k) ==
  /\ 1 < k
  /\ k < Len(diffs)
  /\ diffs[k][1] # DIFF_EQUAL
  /\ diffs[k - 1][1] = DIFF_EQUAL
  /\ diffs[k + 1][1] = DIFF_EQUAL

\* diff_cleanupSemantic of diff-match-patch on a list that holds nothing the
\* pass rewrites: the list is kept. Lists with a weak equality, an overlap or
\* a slidable edit are outside the texts followed here.
diff_cleanupSemantic(diffs) ==
  CASE \A k \in 1 .. Len(diffs) :
         ~weakEquality(diffs, k) /\ ~overlapping(diffs, k) /\ ~slidable(diffs, k)
       -> diffs

\* the lengths of the segments of one operation, added up
RECURSIVE countChars(_, _)
countChars(diffs, op) ==
  IF diffs = <<>> THEN 0
  ELSE (IF Head(diffs)[1] = op THEN Len(Head(diffs)[2]) ELSE 0)
       + countChars(Tail(diffs), op)

\* the loop body with the two texts handed to diff_main the wrong way round
pageTextDiffSwapped(i, basePages, comparePages) ==
  LET oldText == pageTextOf(basePages, i)
      newText == pageTextOf(comparePages, i)
      diffs == diff_cleanupSemantic(diff_main(newText, oldText))
  IN [pageIndex |-> i,
      changes |-> diffs,
      hasChanges |-> \E k \in 1 .. Len(diffs) : diffs[k][1] # DIFF_EQUAL,
      addedCount |-> countChars(diffs, DIFF_INSERT),
      removedCount |-> countChars(diffs, DIFF_DELETE)]

\* the body of the page loop of computeTextDiff
pageTextDiff(i, basePages, comparePages) ==
  LET oldText == pageTextOf(basePages, i)
      newText == pageTextOf(comparePages, i)
      diffs == diff_cleanupSemantic(diff_main(oldText, newText))
  IN [pageIndex |-> i,
      changes |-> diffs,
      hasChanges |-> \E k \in 1 .. Len(diffs) : diffs[k][1] # DIFF_EQUAL,
      addedCount |-> countChars(diffs, DIFF_INSERT),
      removedCount |-> countChars(diffs, DIFF_DELETE)]

\* the page loop stopping at the shorter of the two page lists
computeTextDiffsShortest(base, compare) ==
  LET basePages == parseTextContent(base.textContent)
      comparePages == parseTextContent(compare.textContent)
      minPages == IF Len(basePages) < Len(comparePages)
                  THEN Len(basePages) ELSE Len(comparePages)
  IN [k \in 1 .. minPages |-> pageTextDiff(k - 1, basePages, comparePages)]

\* computeTextDiffs of the diff route: one result per page index below the
\* longer of the two page lists
computeTextDiffs(base, compare) ==
  LET basePages == parseTextContent(base.textContent)
      comparePages == parseTextContent(compare.textContent)
      maxPages == MaxOf({Len(basePages), Len(comparePages)})
  IN [k \in 1 .. maxPages |-> pageTextDiff(k - 1, basePages, comparePages)]

\* computeTextDiff of lib/diff-utils.ts: both versions are read from the
\* store, a missing one is an error, and the same loop runs over the pages
computeTextDiff(baseVersionId, compareVersionId) ==
  IF ~HasVersion(baseVersionId) \/ ~HasVersion(compareVersionId)
  THEN [ok |-> FALSE]
  ELSE [ok |-> TRUE,
        value |-> computeTextDiffs(getById(baseVersionId),
                                   getById(compareVersionId))]

\* computeFullDiff: the annotation half of the report, added first, then
\* removed, then modified
annotationChangesOf(annotationDiff) ==
  [i \in 1 .. Len(annotationDiff.added) |->
     [type |-> "added", annotation |-> annotationDiff.added[i]]]
  \o [i \in 1 .. Len(annotationDiff.deleted) |->
        [type |-> "removed", annotation |-> annotationDiff.deleted[i]]]
  \o [i \in 1 .. Len(annotationDiff.modified) |->
        [type |-> "modified", annotation |-> annotationDiff.modified[i].new,
         previousAnnotation |-> annotationDiff.modified[i].old]]

\* the summary that counts every compared page as a text change
summaryOfAllPages(textDiffs, annotationDiff) ==
  [totalChanges |-> Len(textDiffs) + Len(annotationChangesOf(annotationDiff)),
   textChanges |-> Len(textDiffs),
   annotationsAdded |-> Len(annotationDiff.added),
   annotationsRemoved |-> Len(annotationDiff.deleted),
   annotationsModified |-> Len(annotationDiff.modified)]

\* the summary of computeFullDiff: simple counting
summaryOf(textDiffs, annotationDiff) ==
  LET textChangesCount ==
        Cardinality({ k \in 1 .. Len(textDiffs) : textDiffs[k].hasChanges })
  IN [totalChanges |-> textChangesCount
                       + Len(annotationChangesOf(annotationDiff)),
      textChanges |-> textChangesCount,
      annotationsAdded |-> Len(annotationDiff.added),
      annotationsRemoved |-> Len(annotationDiff.deleted),
      annotationsModified |-> Len(annotationDiff.modified)]

\* the rejection both halves of the diff raise for an id the store lacks
VersionsNotFound == "One or both versions not found"

\* a full diff that answers an unknown version with an empty report
computeFullDiffLenient(baseVersionId, compareVersionId) ==
  LET textDiffs == computeTextDiff(baseVersionId, compareVersionId)
      annotationDiff == computeAnnotationDiff(baseVersionId, compareVersionId)
  IN IF ~textDiffs.ok \/ ~annotationDiff.ok
     THEN [ok |-> TRUE,
           value |-> [shown |-> TRUE,
                      versionAId |-> baseVersionId,
                      versionBId |-> compareVersionId,
                      textDiffs |-> <<>>,
                      annotationChanges |-> <<>>,
                      summary |-> summaryOf(<<>>, [added |-> <<>>, deleted |-> <<>>,
                                                   modified |-> <<>>])]]
     ELSE [ok |-> TRUE,
           value |-> [shown |-> TRUE,
                      versionAId |-> baseVersionId,
                      versionBId |-> compareVersionId,
                      textDiffs |-> textDiffs.value,
                      annotationChanges |-> annotationChangesOf(annotationDiff.value),
                      summary |-> summaryOf(textDiffs.value, annotationDiff.value)]]

\* computeFullDiff: both halves are awaited together; either one rejecting
\* rejects the whole call, otherwise the report is built from the two results
computeFullDiff(baseVersionId, compareVersionId) ==
  LET textDiffs == computeTextDiff(baseVersionId, compareVersionId)
      annotationDiff == computeAnnotationDiff(baseVersionId, compareVersionId)
  IN IF ~textDiffs.ok \/ ~annotationDiff.ok
     THEN [ok |-> FALSE, error |-> VersionsNotFound]
     ELSE [ok |-> TRUE,
           value |-> [shown |-> TRUE,
                      versionAId |-> baseVersionId,
                      versionBId |-> compareVersionId,
                      textDiffs |-> textDiffs.value,
                      annotationChanges |-> annotationChangesOf(annotationDiff.value),
                      summary |-> summaryOf(textDiffs.value, annotationDiff.value)]]

\* ---------------------------------------------------------- VersionDiff
isComputing == comparing.pc # "idle"

\* handleCompare with the same version chosen on both sides: an error toast
HandleCompareRejected(baseVersionId, compareVersionId) ==
  /\ ~isComputing
  /\ baseVersionId = compareVersionId
  /\ lastOp' = "CompareRejected"
  /\ UNCHANGED <<dbVars, currentDocument, versions, currentVersionId, trackerVars,
                 switchTarget, isCommitting, commit, upload, viewerVars,
                 comparing, diffResult, diffCall, listDelete, storeDocuments, storeVersions, requests>>

\* handleCompare up to its await: the shown result is dropped
HandleCompare(baseVersionId, compareVersionId) ==
  /\ ~isComputing
  /\ baseVersionId # compareVersionId
  /\ comparing' = [pc |-> "computing", baseVersionId |-> baseVersionId,
                   compareVersionId |-> compareVersionId]
  /\ diffResult' = NoDiff
  /\ lastOp' = "HandleCompare"
  /\ UNCHANGED <<dbVars, currentDocument, versions, currentVersionId, trackerVars,
                 switchTarget, isCommitting, commit, upload, viewerVars, diffCall, listDelete, storeDocuments, storeVersions, requests>>

\* handleCompare after computeFullDiff returned: the report is shown
CompareDone ==
  /\ comparing.pc = "computing"
  /\ LET result == computeFullDiff(comparing.baseVersionId,
                                   comparing.compareVersionId)
     IN /\ result.ok
        /\ diffResult' = result.value
  /\ comparing' = Idle
  /\ lastOp' = "CompareDone"
  /\ UNCHANGED <<dbVars, currentDocument, versions, currentVersionId, trackerVars,
                 switchTarget, isCommitting, commit, upload, viewerVars, diffCall, listDelete, storeDocuments, storeVersions, requests>>

\* a failure handler that shows the annotation half it had got hold of
CompareFailShowingHalf ==
  /\ comparing.pc = "computing"
  /\ comparing' = Idle
  /\ diffResult' =
       [shown |-> TRUE,
        versionAId |-> comparing.baseVersionId,
        versionBId |-> comparing.compareVersionId,
        annotationChanges |->
          annotationChangesOf(computeAnnotationDiff(comparing.baseVersionId,
                                                    comparing.compareVersionId).value)]
  /\ lastOp' = "CompareFail"
  /\ UNCHANGED <<dbVars, currentDocument, versions, currentVersionId, trackerVars,
                 switchTarget, isCommitting, commit, upload, viewerVars,
                 diffCall, listDelete, storeDocuments, storeVersions, requests>>

\* handleCompare after computeFullDiff rejected (a version the store lacks,
\* or a read of the store that failed): an error toast, no report
CompareFail ==
  /\ comparing.pc = "computing"
  /\ comparing' = Idle
  /\ lastOp' = "CompareFail"
  /\ UNCHANGED <<dbVars, currentDocument, versions, currentVersionId, trackerVars,
                 switchTarget, isCommitting, commit, upload, viewerVars,
                 diffResult, diffCall, listDelete, storeDocuments, storeVersions, requests>>

\* ------------------------------------------------- the diff view alone
\* A document with three stored versions: the upload and two commits whose
\* snapshots are what handleCommit writes for the annotations below.
DiffPspdfkitIds == {1, 2}

DiffRaws ==
  { [id |-> i, type |-> f.type, pageIndex |-> f.pageIndex, text |-> f.text,
     contents |-> "", note |-> "", color |-> f.color] :
      i \in DiffPspdfkitIds,
      f \in { [type |-> "pspdfkit/highlight", pageIndex |-> 0, text |-> "",
               color |-> NoColor],
              [type |-> "pspdfkit/note", pageIndex |-> 0, text |-> "",
               color |-> NoColor],
              [type |-> "pspdfkit/highlight", pageIndex |-> 1, text |-> "",
               color |-> NoColor],
              [type |-> "pspdfkit/highlight", pageIndex |-> 0, text |-> "final",
               color |-> NoColor],
              [type |-> "pspdfkit/highlight", pageIndex |-> 0, text |-> "",
               color |-> [kind |-> "rgb", r |-> 255, g |-> 0, b |-> 16]] } }

DiffRawLists ==
  {<<>>} \cup { <<a>> : a \in DiffRaws }
         \cup { p \in DiffRaws \X DiffRaws : p[1].id # p[2].id }

DiffVersion(versionId, versionNumber, raws) ==
  [id |-> versionId, documentId |-> 1, versionNumber |-> versionNumber,
   message |-> <<"m">>,
   pdfData |-> { raws[i] : i \in 1 .. Len(raws) },
   annotations |-> annotationsJson(trackAll(raws, FreshIds({}, Len(raws)))),
   textContent |-> textContentJson(extractText({}))]

DiffInit ==
  \E raws2 \in DiffRawLists, raws3 \in DiffRawLists :
    /\ dbDocuments = {[id |-> 1, currentVersionId |-> 3]}
    /\ dbVersions = {InitialVersion(1, 1), DiffVersion(2, 2, raws2),
                     DiffVersion(3, 3, raws3)}
    /\ currentDocument = 1
    /\ versions = setVersions(<<Metadata(InitialVersion(1, 1)),
                                Metadata(DiffVersion(2, 2, raws2)),
                                Metadata(DiffVersion(3, 3, raws3))>>)
    /\ currentVersionId = 3
    /\ annotations = trackAll(raws3, FreshIds({}, Len(raws3)))
    /\ pendingChanges = <<>>
    /\ switchTarget = None
    /\ isCommitting = FALSE
    /\ commit = Idle
    /\ upload = Idle
    /\ load = [pc |-> "ready", ver |-> 3]
    /\ rAnns = { raws3[i] : i \in 1 .. Len(raws3) }
    /\ appInstance = 3
    /\ comparing = Idle
    /\ diffResult = NoDiff
    /\ diffCall = NoCall
    /\ listDelete = Idle
    /\ stale = {}
    /\ storeDocuments = {}
    /\ storeVersions = <<>>
    /\ requests = {}
    /\ lastOp = "CommitDone"

DiffNext ==
  \/ \E b \in VersionIds, c \in VersionIds : HandleCompareRejected(b, c)
  \/ \E b \in VersionIds, c \in VersionIds : HandleCompare(b, c)
  \/ CompareDone
  \/ CompareFail

DiffSpec == DiffInit /\ [][DiffNext]_vars

\* ------------------------------------------------ the diff engine alone
\* computeFullDiff called on a store of two versions of one document. The
\* versions hold the snapshots below: page texts as extractText writes them
\* (and the empty text of the first upload), annotation records in either
\* stored shape.
EngineRequestIds == {1, 2, 3}

EngineTexts == { <<>>, <<"a">>, <<"b">>, <<"a", "b">> }

EngineTextContents ==
  {[shape |-> "empty"]}
  \cup { textContentJson(<< [pageIndex |-> 0, text |-> t] >>) : t \in EngineTexts }
  \cup { textContentJson(<< [pageIndex |-> 0, text |-> t],
                            [pageIndex |-> 1, text |-> u] >>) :
           t \in { <<"a">>, <<"a", "b">> }, u \in { <<>>, <<"b">> } }

EngineRecord(id, type, pageIndex, contents) ==
  [id |-> id, type |-> type, pageIndex |-> pageIndex, contents |-> contents,
   color |-> getAnnotationColor([color |-> NoColor])]

EngineRecordLists ==
  { <<>>,
    << EngineRecord(1, "highlight", 0, "") >>,
    << EngineRecord(1, "note", 0, "") >>,
    << EngineRecord(2, "highlight", 0, "draft"), EngineRecord(1, "highlight", 1, "") >>,
    << EngineRecord(1, "note", 0, "draft") @@ [text |-> "final"] >> }

EngineAnnotations ==
  { [shape |-> shape, items |-> items] :
      shape \in {"array", "instant"}, items \in EngineRecordLists }

EngineVersion(versionId, snapshot, textContent) ==
  [id |-> versionId, documentId |-> 1, versionNumber |-> versionId,
   message |-> <<"m">>, pdfData |-> {},
   annotations |-> snapshot, textContent |-> textContent]

EngineInit ==
  \E a1 \in EngineAnnotations, a2 \in EngineAnnotations,
     t1 \in EngineTextContents, t2 \in EngineTextContents :
    /\ dbDocuments = {[id |-> 1, currentVersionId |-> 2]}
    /\ dbVersions = {EngineVersion(1, a1, t1), EngineVersion(2, a2, t2)}
    /\ currentDocument = 1
    /\ versions = setVersions(<<Metadata(EngineVersion(1, a1, t1)),
                                Metadata(EngineVersion(2, a2, t2))>>)
    /\ currentVersionId = 2
    /\ annotations = <<>>
    /\ pendingChanges = <<>>
    /\ switchTarget = None
    /\ isCommitting = FALSE
    /\ commit = Idle
    /\ upload = Idle
    /\ load = Idle
    /\ rAnns = {}
    /\ appInstance = None
    /\ comparing = Idle
    /\ diffResult = NoDiff
    /\ diffCall = NoCall
    /\ listDelete = Idle
    /\ stale = {}
    /\ storeDocuments = {}
    /\ storeVersions = <<>>
    /\ requests = {}
    /\ lastOp = "init"

\* one call of computeFullDiff, from its arguments to its outcome
CallComputeFullDiff(baseVersionId, compareVersionId) ==
  /\ diffCall' = [called |-> TRUE,
                  baseVersionId |-> baseVersionId,
                  compareVersionId |-> compareVersionId,
                  outcome |-> computeFullDiff(baseVersionId, compareVersionId)]
  /\ lastOp' = "computeFullDiff"
  /\ UNCHANGED <<dbVars, currentDocument, versions, currentVersionId, trackerVars,
                 switchTarget, isCommitting, commit, upload, viewerVars,
                 comparing, diffResult, listDelete, storeDocuments, storeVersions,
                 requests>>

EngineNext ==
  \E b \in EngineRequestIds, c \in EngineRequestIds : CallComputeFullDiff(b, c)

EngineSpec == EngineInit /\ [][EngineNext]_vars

\* --------------------------------------------- text extraction alone
\* The page loop of extractText, one turn at a time, inside a running commit
\* of a document of ExtractPageCount pages.
\* the number of pages of the document whose text is extracted
ExtractPageCount == 6

\* a turn of the loop whose failure gives up the commit
ExtractPageAborting(ok) ==
  /\ commit.pc = "extract"
  /\ Len(commit.pages) < ExtractPageCount
  /\ IF ok
     THEN /\ commit' = [commit EXCEPT !.pages =
                          Append(@, [pageIndex |-> Len(commit.pages),
                                     text |-> joinLines(
                                       textLinesForPageIndex(Len(commit.pages)))])]
          /\ UNCHANGED isCommitting
     ELSE /\ commit' = Idle
          /\ isCommitting' = FALSE
  /\ lastOp' = "ExtractPage"
  /\ UNCHANGED <<dbVars, currentDocument, versions, currentVersionId, trackerVars,
                 switchTarget, upload, viewerVars,
                 comparing, diffResult, diffCall, listDelete, storeDocuments, storeVersions, requests>>

\* one turn of the loop: the page's lines joined by newlines, or the empty
\* string when textLinesForPageIndex rejects
ExtractPage(ok) ==
  /\ commit.pc = "extract"
  /\ Len(commit.pages) < ExtractPageCount
  /\ commit' = [commit EXCEPT !.pages =
                  Append(@, [pageIndex |-> Len(commit.pages),
                             text |-> IF ok
                                      THEN joinLines(
                                             textLinesForPageIndex(Len(commit.pages)))
                                      ELSE <<>>])]
  /\ lastOp' = "ExtractPage"
  /\ UNCHANGED <<dbVars, currentDocument, versions, currentVersionId, trackerVars,
                 switchTarget, isCommitting, upload, viewerVars,
                 comparing, diffResult, diffCall, listDelete, storeDocuments, storeVersions, requests>>

\* the loop has run past the last page: handleCommit builds the version
ExtractDone ==
  /\ commit.pc = "extract"
  /\ Len(commit.pages) = ExtractPageCount
  /\ commit' = [pc |-> "verAdd",
                version |-> BuildVersion(commit, FreshId(UsedVersionIds),
                                         commit.pages)]
  /\ lastOp' = "CommitTextExtracted"
  /\ UNCHANGED <<dbVars, currentDocument, versions, currentVersionId, trackerVars,
                 switchTarget, isCommitting, upload, viewerVars,
                 comparing, diffResult, diffCall, listDelete, storeDocuments, storeVersions, requests>>

\* a commit of the uploaded document that has exported the PDF and is about
\* to extract the first page
ExtractInit ==
  /\ dbDocuments = {[id |-> 1, currentVersionId |-> 1]}
  /\ dbVersions = {InitialVersion(1, 1)}
  /\ currentDocument = 1
  /\ versions = <<Metadata(InitialVersion(1, 1))>>
  /\ currentVersionId = 1
  /\ annotations = <<>>
  /\ pendingChanges = <<>>
  /\ switchTarget = None
  /\ isCommitting = TRUE
  /\ commit = [pc |-> "extract", message |-> <<"m">>, documentId |-> 1,
               versionNumber |-> 2, pdfData |-> {},
               annotations |-> annotationsJson(<<>>), pages |-> <<>>]
  /\ upload = Idle
  /\ load = [pc |-> "ready", ver |-> 1]
  /\ rAnns = {}
  /\ appInstance = 1
  /\ comparing = Idle
  /\ diffResult = NoDiff
  /\ diffCall = NoCall
  /\ listDelete = Idle
  /\ stale = {}
  /\ storeDocuments = {}
  /\ storeVersions = <<>>
  /\ requests = {}
  /\ lastOp = "CommitExported"

ExtractNext ==
  \/ \E ok \in BOOLEAN : ExtractPage(ok)
  \/ ExtractDone

ExtractSpec == ExtractInit /\ [][ExtractNext]_vars

\* ------------------------------------------------------- version history
\* the stored versions of a document
PersistedOf(docId) == { v \in dbVersions : v.documentId = docId }

\* the stored Document record's pointer to the displayed version
documentCurrentVersionId ==
  IF \E d \in dbDocuments : d.id = currentDocument
  THEN (CHOOSE d \in dbDocuments : d.id = currentDocument).currentVersionId
  ELSE None

\* no upload and no commit is between two of its awaits
Quiescent == upload.pc = "idle" /\ commit.pc = "idle"

\* the version store gets one entry per successful upload or commit
SuccessfulCommits == Len(versions)

\* the steps of one execution of handleCommit, its success step excepted
CommitAttemptSteps ==
  {"HandleCommit", "CommitExported", "CommitTextExtracted", "CommitVerAdded",
   "CommitFail"}

\* C1: whenever no write is under way, the stored versions of the open
\* document carry exactly the numbers 1..N, each once, N being the number of
\* successful commits (the upload counted as the first), whatever the number
\* of failed attempts in between.
C1_VersionNumbersDense ==
  (currentDocument # None /\ Quiescent) =>
    /\ Cardinality(PersistedOf(currentDocument)) = SuccessfulCommits
    /\ { v.versionNumber : v \in PersistedOf(currentDocument) }
         = 1 .. SuccessfulCommits

\* C2: no step of a commit attempt that ends in the error report changes
\* pendingChanges, the current version id or the stored document's pointer.
C2_FailedCommitKeepsState ==
  [][lastOp' \in CommitAttemptSteps =>
       /\ pendingChanges' = pendingChanges
       /\ currentVersionId' = currentVersionId
       /\ documentCurrentVersionId' = documentCurrentVersionId]_vars

\* an attempt that failed in its last write, with changes to lose: they are
\* all still pending
C2_Witness ==
  /\ lastOp = "CommitFail"
  /\ Len(pendingChanges) > 0
  /\ \E v \in PersistedOf(currentDocument) : v.id \notin VersionIds

\* C3: when a commit attempt reports an error, the Version record of that
\* attempt is not in the store.
C3_NoPartialCommit ==
  [][lastOp' = "CommitFail" =>
       ~(commit.pc \in {"verAdd", "docUpdate"} /\ commit.version \in dbVersions')]_vars

\* C4: a step of handleCommit that changes pendingChanges, the current
\* version id or the stored document's pointer finds the attempt's Version
\* record already stored and leaves the stored document pointing to it.
C4_ClearAfterPersistence ==
  [][(/\ lastOp' \in CommitAttemptSteps \cup {"CommitDone"}
      /\ \/ pendingChanges' # pendingChanges
         \/ currentVersionId' # currentVersionId
         \/ documentCurrentVersionId' # documentCurrentVersionId)
     => /\ commit.pc = "docUpdate"
        /\ commit.version \in dbVersions
        /\ documentCurrentVersionId' = commit.version.id]_vars

\* a successful commit of a non-empty snapshot has cleared the log
C4_Witness ==
  /\ lastOp = "CommitDone"
  /\ pendingChanges = <<>>
  /\ \E v \in dbVersions :
       /\ v.id = currentVersionId
       /\ v.annotations.items # <<>>
       /\ documentCurrentVersionId = v.id

\* C5: pendingChanges goes from non-empty to empty only in the success step
\* of a commit or in "Discard & Switch".
C5_OnlyCommitOrDiscardEmpties ==
  [][(pendingChanges # <<>> /\ pendingChanges' = <<>>) =>
       lastOp' \in {"CommitDone", "DiscardAndSwitch"}]_vars

\* the changes were discarded for a switch to another version
C5_Witness ==
  /\ lastOp = "DiscardAndSwitch"
  /\ pendingChanges = <<>>
  /\ annotations # <<>>

\* C6: in the confirmation dialog, cancel keeps every pending change and the
\* current version id; discard empties pendingChanges and makes the target
\* the current version.
C6_DiscardSafety ==
  [][/\ lastOp' = "CancelSwitch" =>
          /\ pendingChanges' = pendingChanges
          /\ currentVersionId' = currentVersionId
          /\ switchTarget' = None
     /\ lastOp' = "DiscardAndSwitch" =>
          /\ pendingChanges' = <<>>
          /\ currentVersionId' = switchTarget
          /\ switchTarget' = None]_vars

\* the dialog was cancelled with changes pending
C6_Witness ==
  /\ lastOp = "CancelSwitch"
  /\ Len(pendingChanges) > 0
  /\ switchTarget = None

\* C7: a click on a version other than the current one switches at once when
\* pendingChanges is empty, and otherwise only opens the confirmation for
\* that version.
C7_SwitchGuard ==
  [][\A id \in VersionIds :
       (HandleVersionClick(id) /\ id # currentVersionId) =>
         IF pendingChanges = <<>>
         THEN currentVersionId' = id /\ switchTarget' = None
         ELSE /\ switchTarget' = id
              /\ currentVersionId' = currentVersionId
              /\ pendingChanges' = pendingChanges]_vars

\* the confirmation is open for another version, the changes untouched
C7_Witness ==
  /\ lastOp = "ClickConfirm"
  /\ switchTarget \in VersionIds \ {currentVersionId}
  /\ Len(pendingChanges) > 0

\* C8: a click on the current version changes nothing: no reload, no
\* confirmation, pendingChanges and the annotations as they were.
C8_SwitchToCurrentNoOp ==
  [][\A id \in VersionIds :
       (HandleVersionClick(id) /\ id = currentVersionId) =>
         UNCHANGED <<currentVersionId, switchTarget, trackerVars, viewerVars,
                     versions, dbVars>>]_vars

\* the current version was clicked with changes pending
C8_Witness ==
  /\ lastOp = "ClickCurrent"
  /\ Len(pendingChanges) > 0
  /\ switchTarget = None

\* a version is on screen: no commit running, no confirmation open
Viewing ==
  /\ currentDocument # None
  /\ currentVersionId # None
  /\ ~isCommitting
  /\ switchTarget = None

\* C9: while a version v is viewed, the stored Document record's
\* currentVersionId is v.
C9_DocumentPointerTracksView ==
  Viewing => documentCurrentVersionId = currentVersionId

\* C10: at the moment a commit takes its snapshot, the snapshot has exactly
\* one entry per tracked annotation; right after the commit has succeeded the
\* new version is stored with the number one above the largest number stored
\* before it, pendingChanges is empty and the new version is the current one.
C10_CommitPostcondition ==
  /\ lastOp = "CommitExported" =>
       /\ Len(commit.annotations.items) = Len(annotations)
       /\ \A i \in 1 .. Len(annotations) :
            commit.annotations.items[i].id = annotations[i].pspdfkitId
  /\ lastOp = "CommitDone" =>
       /\ pendingChanges = <<>>
       /\ \E new \in PersistedOf(currentDocument) :
            /\ new.id = currentVersionId
            /\ new.versionNumber =
                 MaxOf({0} \cup { w.versionNumber :
                                    w \in PersistedOf(currentDocument) \ {new} }) + 1

\* C11: in every stored version, the ids of the annotation snapshot are the
\* ids of the annotations the renderer held when the file was exported.
C11_SnapshotIsRendererSet ==
  \A v \in dbVersions :
    ItemIds(v.annotations) = { r.id : r \in v.pdfData }

\* C12: a stored Version stays in the store, field for field, and stays the
\* only record under its id, through every later step: a switch, a commit
\* of another version, a failed commit.
C12_VersionsImmutable ==
  [][\A v \in dbVersions :
       /\ v \in dbVersions'
       /\ \A w \in dbVersions' : w.id = v.id => w = v]_vars

\* a commit stored a third version after an attempt that failed in its last
\* write, and the two older versions are still there
C12_Witness ==
  /\ lastOp = "CommitDone"
  /\ Cardinality(PersistedOf(currentDocument)) = 3
  /\ \E v \in PersistedOf(currentDocument) : v.message = InitialUploadMessage

\* toast.error was called by the handler that ran last
errorReported == lastOp \in {"CommitFail", "UploadFail"}

\* a click on Commit, in a dialog that has a document and an instance, with
\* an empty or whitespace-only message
BlankCommitStep ==
  \E m \in Messages :
    /\ appInstance # None
    /\ currentDocument # None
    /\ trim(m) = <<>>
    /\ HandleCommit(m) \/ HandleCommitIgnored(m)

C14_CreateRejectsOutOfSequence ==
  [][\A v \in dbVersions' \ dbVersions :
       v.versionNumber =
         MaxOf({0} \cup { w.versionNumber : w \in PersistedOf(v.documentId) }) + 1]_vars

\* an update or delete event for an annotation the tracker does not hold
UnknownIdEvent ==
  \E raw \in rAnns :
    /\ ~HasPspdfkitId(annotations, raw.id)
    /\ \/ RendererDelete(raw)
       \/ \E edit \in RawEdits \cup TrackerEdits : RendererUpdate(raw, edit)

\* C15: an update or delete event whose renderer id matches no tracked
\* annotation reports no error and leaves annotations and pendingChanges
\* exactly as they were.
C15_UnknownIdIsNoOp ==
  [][UnknownIdEvent => (~errorReported' /\ UNCHANGED trackerVars)]_vars

\* the renderer's only annotation was edited while the tracker held none
C15_Witness ==
  /\ lastOp = "RendererUpdate"
  /\ annotations = <<>>
  /\ pendingChanges = <<>>
  /\ \E raw \in rAnns : raw.text = "final"

\* the action a handler writes into its change record
EventAction(op) ==
  CASE op = "RendererCreate" -> "create"
    [] op = "RendererUpdate" -> "update"
    [] op = "RendererDelete" -> "delete"
    [] OTHER -> "none"

\* a create event, or an update or delete event that finds its annotation
TrackedEvent ==
  /\ lastOp' \in {"RendererCreate", "RendererUpdate", "RendererDelete"}
  /\ ~UnknownIdEvent

C17_DeleteRecordsPriorValues ==
  [][\A raw \in rAnns :
       (RendererDelete(raw) /\ HasPspdfkitId(annotations, raw.id)) =>
         LET existing == existingOf(annotations, raw.id)
             rec == pendingChanges'[Len(pendingChanges')]
         IN /\ ~HasPspdfkitId(annotations', raw.id)
            /\ Len(annotations') = Len(annotations) - 1
            /\ Len(pendingChanges') = Len(pendingChanges) + 1
            /\ rec.action = "delete"
            /\ rec.annotationId = existing.id
            /\ rec.type = existing.type
            /\ rec.pageIndex = existing.pageIndex
            /\ rec.contents = existing.contents
            /\ rec.pageIndex = raw.pageIndex
            /\ rec.contents = getAnnotationContents(raw)]_vars

\* an annotation was deleted after an update had given it the text "final"
C17_Witness ==
  /\ lastOp = "RendererDelete"
  /\ Len(pendingChanges) >= 3
  /\ pendingChanges[Len(pendingChanges)].action = "delete"
  /\ pendingChanges[Len(pendingChanges)].contents = "final"
  /\ \A i \in 1 .. Len(annotations) :
       annotations[i].id # pendingChanges[Len(pendingChanges)].annotationId

\* a tracked list without the ids that generateId() gave its entries
WithoutIds(anns) ==
  [i \in 1 .. Len(anns) |->
     [pspdfkitId |-> anns[i].pspdfkitId, type |-> anns[i].type,
      pageIndex |-> anns[i].pageIndex, contents |-> anns[i].contents,
      color |-> anns[i].color]]

RECURSIVE allPageAnnotations(_)
\* what getAnnotations returns for the pages 0 .. n - 1, in that order
allPageAnnotations(n) ==
  IF n = 0 THEN <<>>
  ELSE allPageAnnotations(n - 1) \o pageAnnotations(n - 1)

\* the tracked list is what a resync of the renderer's annotations gives
AlreadySynced ==
  WithoutIds(annotations) =
    WithoutIds(trackAll(allPageAnnotations(totalPageCount),
                        FreshIds(UsedTrackedIds,
                                 Len(allPageAnnotations(totalPageCount)))))

\* the step in which syncAnnotationsFromInstance, all reads good, replaces
\* the tracked list
ResyncStep ==
  /\ SyncPage(TRUE)
  /\ load'.pc = "ready"
  /\ Len(load.buf) = Len(allPageAnnotations(totalPageCount - 1))

\* C18 (as stated): a resync of the list the tracker was last synced to
\* leaves annotations exactly as it was, and no resync appends to
\* pendingChanges.
C18_ResyncIdempotent ==
  [][/\ (ResyncStep /\ AlreadySynced) => annotations' = annotations
     /\ lastOp' = "SyncPage" => pendingChanges' = pendingChanges]_vars

\* C18 (amended): a resync of the list the tracker was last synced to gives
\* the same tracked annotations in the same order, each under a newly
\* generated id, and no resync appends to pendingChanges.
C18_ResyncIdempotentUpToIds ==
  [][/\ (ResyncStep /\ AlreadySynced) =>
          /\ WithoutIds(annotations') = WithoutIds(annotations)
          /\ \A i \in 1 .. Len(annotations), j \in 1 .. Len(annotations') :
               annotations'[j].id # annotations[i].id
     /\ lastOp' = "SyncPage" => pendingChanges' = pendingChanges]_vars

\* the viewer reloaded and tracked again, under a new id, the one annotation
\* the tracker had held under the first id
C18_Witness ==
  /\ lastOp = "SyncPage"
  /\ load.pc = "ready"
  /\ pendingChanges = <<>>
  /\ Len(annotations) = 1
  /\ annotations[1].id # FreshId({})
  /\ AlreadySynced

\* C19: the two callers of clearChanges(), the success path of a commit and
\* "Discard & Switch", leave pendingChanges empty and the tracked
\* annotations as they were.
C19_ClearKeepsAnnotations ==
  [][lastOp' \in {"CommitDone", "DiscardAndSwitch"} =>
       /\ pendingChanges' = clearChanges(pendingChanges)
       /\ pendingChanges' = <<>>
       /\ annotations' = annotations]_vars

\* a commit has cleared a log that was not empty while an annotation is tracked
C19_Witness ==
  /\ lastOp = "CommitDone"
  /\ pendingChanges = <<>>
  /\ annotations # <<>>
  /\ \E v \in dbVersions : v.id = currentVersionId /\ v.annotations.items # <<>>


\* ------------------------------------------------------ annotation diff
\* the ids the shown report lists under one kind of change
ReportedIds(kind) ==
  { diffResult.annotationChanges[i].annotation.id :
      i \in { j \in 1 .. Len(diffResult.annotationChanges) :
                diffResult.annotationChanges[j].type = kind } }

\* the stored snapshot entry of an annotation id in a version
SnapshotEntry(versionId, id) ==
  LET items == getById(versionId).annotations.items
  IN items[CHOOSE i \in 1 .. Len(items) : items[i].id = id]

\* C20: the annotation diff classifies purely by id. An id only in the
\* compare snapshot is reported as added, an id only in the base snapshot as
\* removed, an id in both as modified exactly when contents, color, pageIndex
\* or type differs, and no id is reported twice.
C20_DiffClassifiesById ==
  diffResult.shown =>
    LET baseIds == ItemIds(getById(diffResult.versionAId).annotations)
        compareIds == ItemIds(getById(diffResult.versionBId).annotations)
        changes == diffResult.annotationChanges
    IN /\ ReportedIds("added") = compareIds \ baseIds
       /\ ReportedIds("removed") = baseIds \ compareIds
       /\ ReportedIds("modified") =
            { id \in baseIds \cap compareIds :
                LET oldAnn == SnapshotEntry(diffResult.versionAId, id)
                    newAnn == SnapshotEntry(diffResult.versionBId, id)
                IN \/ oldAnn.contents # newAnn.contents
                   \/ oldAnn.color # newAnn.color
                   \/ oldAnn.pageIndex # newAnn.pageIndex
                   \/ oldAnn.type # newAnn.type }
       /\ \A i \in 1 .. Len(changes), j \in 1 .. Len(changes) :
            changes[i].annotation.id = changes[j].annotation.id => i = j

\* a shown report with an added annotation next to one whose id is in both
\* snapshots and whose type is the only thing that changed
C20_Witness ==
  /\ lastOp = "CompareDone"
  /\ diffResult.shown
  /\ ReportedIds("added") # {}
  /\ \E i \in 1 .. Len(diffResult.annotationChanges) :
       LET change == diffResult.annotationChanges[i]
       IN /\ change.type = "modified"
          /\ change.previousAnnotation.type # change.annotation.type
          /\ change.previousAnnotation.contents = change.annotation.contents
          /\ change.previousAnnotation.color = change.annotation.color
          /\ change.previousAnnotation.pageIndex = change.annotation.pageIndex


\* the old/new pairs of a modified list, as a set
ModifiedPairs(modified) ==
  { <<modified[i].old, modified[i].new>> : i \in 1 .. Len(modified) }

\* C21: the annotation diff is symmetric in detection. For any two stored
\* versions, the added list of one direction is the deleted list of the
\* other, and the modified pairs of the two directions are the same after
\* swapping old and new.
C21_DiffSymmetric ==
  \A a \in VersionIds, b \in VersionIds :
    LET forward == computeAnnotationDiff(a, b).value
        backward == computeAnnotationDiff(b, a).value
    IN /\ forward.added = backward.deleted
       /\ forward.deleted = backward.added
       /\ ModifiedPairs(forward.modified) =
            { <<p[2], p[1]>> : p \in ModifiedPairs(backward.modified) }

\* a comparison has run on two versions that differ in an added annotation and
\* in a modified one whose page number went down
C21_Witness ==
  /\ lastOp = "CompareDone"
  /\ LET forward == computeAnnotationDiff(diffResult.versionAId,
                                          diffResult.versionBId).value
     IN /\ forward.added # <<>>
        /\ \E i \in 1 .. Len(forward.modified) :
             forward.modified[i].old.pageIndex > forward.modified[i].new.pageIndex


\* ---------------------------------------------------------- diff report
\* a displayed result that is empty or a whole report of two stored versions
CompleteOrEmpty(result) ==
  \/ result = NoDiff
  \/ /\ result.shown
     /\ HasVersion(result.versionAId)
     /\ HasVersion(result.versionBId)
     /\ result = computeFullDiff(result.versionAId, result.versionBId).value

\* C27: a failed comparison never leaves half a report on display. After the
\* failure handler has run, the displayed result is empty or a whole report
\* (text diffs, annotation changes and summary of the same two versions).
C27_NoHalfReportAfterFailure ==
  [][CompareFail => CompleteOrEmpty(diffResult')]_vars

\* a comparison of two versions with different annotations has just failed
\* and nothing is on display
C27_Witness ==
  /\ lastOp = "CompareFail"
  /\ ~isComputing
  /\ diffResult = NoDiff
  /\ \E a \in VersionIds, b \in VersionIds :
       computeAnnotationDiff(a, b).value.added # <<>>


\* ------------------------------------------------------------ text report
\* the texts of the segments whose operation is not the given one, joined
RECURSIVE textWithout(_, _)
textWithout(diffs, op) ==
  IF diffs = <<>> THEN <<>>
  ELSE (IF Head(diffs)[1] # op THEN Head(diffs)[2] ELSE <<>>)
       \o textWithout(Tail(diffs), op)

\* the two versions a successful call compared, and their page lists
CallSucceeded == diffCall.called /\ diffCall.outcome.ok

BasePages == parseTextContent(getById(diffCall.baseVersionId).textContent)

ComparePages == parseTextContent(getById(diffCall.compareVersionId).textContent)

HasPage(pages, i) == \E k \in 1 .. Len(pages) : pages[k].pageIndex = i

\* C23: the text diff has one entry per page index from 0 up to the longer
\* page list, in ascending order. A side's text is its snapshot entry for
\* that page index; a page a snapshot lacks counts as empty text, so the
\* page shows as inserted or deleted as a whole.
C23_OneTextDiffPerPage ==
  CallSucceeded =>
    LET textDiffs == diffCall.outcome.value.textDiffs
    IN /\ Len(textDiffs) = MaxOf({Len(BasePages), Len(ComparePages)})
       /\ \A k \in 1 .. Len(textDiffs) :
            LET d == textDiffs[k]
            IN /\ d.pageIndex = k - 1
               /\ HasPage(BasePages, k - 1) =>
                    \E j \in 1 .. Len(BasePages) :
                      /\ BasePages[j].pageIndex = k - 1
                      /\ textWithout(d.changes, DIFF_INSERT) = BasePages[j].text
               /\ HasPage(ComparePages, k - 1) =>
                    \E j \in 1 .. Len(ComparePages) :
                      /\ ComparePages[j].pageIndex = k - 1
                      /\ textWithout(d.changes, DIFF_DELETE) = ComparePages[j].text
               /\ ~HasPage(BasePages, k - 1) =>
                    \A j \in 1 .. Len(d.changes) : d.changes[j][1] = DIFF_INSERT
               /\ ~HasPage(ComparePages, k - 1) =>
                    \A j \in 1 .. Len(d.changes) : d.changes[j][1] = DIFF_DELETE

\* a report on a base with one page and a compare side with two, the second
\* page holding text
C23_Witness ==
  /\ CallSucceeded
  /\ Len(BasePages) = 1
  /\ Len(ComparePages) = 2
  /\ Len(diffCall.outcome.value.textDiffs) = 2
  /\ diffCall.outcome.value.textDiffs[2].changes # <<>>


\* the number of annotation changes of one kind in a report
ChangesOfKind(report, kind) ==
  Cardinality({ k \in 1 .. Len(report.annotationChanges) :
                  report.annotationChanges[k].type = kind })

\* the number of page diffs of a report that hold an insertion or a deletion
ChangedPages(report) ==
  Cardinality({ k \in 1 .. Len(report.textDiffs) :
                  \E j \in 1 .. Len(report.textDiffs[k].changes) :
                    report.textDiffs[k].changes[j][1] # DIFF_EQUAL })

\* C24: in every report the summary is plain counting. totalChanges is the
\* number of pages whose text changed plus the numbers of added, removed and
\* modified annotations, and the three annotation counts are the sizes of
\* the three lists.
C24_SummaryCounts ==
  CallSucceeded =>
    LET report == diffCall.outcome.value
        annotationDiff == computeAnnotationDiff(diffCall.baseVersionId,
                                                diffCall.compareVersionId).value
    IN /\ report.summary.annotationsAdded = Len(annotationDiff.added)
       /\ report.summary.annotationsRemoved = Len(annotationDiff.deleted)
       /\ report.summary.annotationsModified = Len(annotationDiff.modified)
       /\ report.summary.annotationsAdded = ChangesOfKind(report, "added")
       /\ report.summary.annotationsRemoved = ChangesOfKind(report, "removed")
       /\ report.summary.annotationsModified = ChangesOfKind(report, "modified")
       /\ report.summary.totalChanges =
            ChangedPages(report) + Len(annotationDiff.added)
            + Len(annotationDiff.deleted) + Len(annotationDiff.modified)

\* a report with a changed page next to an unchanged one, an added, a removed
\* and a modified annotation
C24_Witness ==
  /\ CallSucceeded
  /\ LET report == diffCall.outcome.value
     IN /\ ChangedPages(report) = 1
        /\ Len(report.textDiffs) = 2
        /\ report.summary.annotationsAdded + report.summary.annotationsRemoved > 0
        /\ report.summary.annotationsModified > 0
        /\ report.summary.totalChanges = 3


\* ------------------------------------------------------------ diff errors
\* C25: computeFullDiff called with the same version id on both sides fails
\* instead of returning a report.
C25_IdenticalVersionsRejected ==
  (diffCall.called /\ diffCall.baseVersionId = diffCall.compareVersionId)
    => ~diffCall.outcome.ok

\* C26: a diff request with a version id the store does not resolve fails
\* with the version-not-found error and returns no report, neither text diffs
\* nor annotation diffs.
C26_UnknownVersionFails ==
  (diffCall.called /\ (~HasVersion(diffCall.baseVersionId)
                        \/ ~HasVersion(diffCall.compareVersionId)))
    => diffCall.outcome = [ok |-> FALSE, error |-> VersionsNotFound]

\* a call whose base version is stored and whose compare version is not
C26_Witness ==
  /\ diffCall.called
  /\ HasVersion(diffCall.baseVersionId)
  /\ ~HasVersion(diffCall.compareVersionId)
  /\ ~diffCall.outcome.ok


\* --------------------------------------------------------- snapshot shapes
\* the two compared versions store the same records, one as a bare array and
\* the other wrapped in an object
SameRecordsTwoShapes ==
  /\ CallSucceeded
  /\ getById(diffCall.baseVersionId).annotations.items
       = getById(diffCall.compareVersionId).annotations.items
  /\ getById(diffCall.baseVersionId).annotations.shape
       # getById(diffCall.compareVersionId).annotations.shape

\* the two shapes give the same entries and the report shows no annotation change
ReadAlike ==
  /\ parseAnnotations(getById(diffCall.baseVersionId).annotations)
       = parseAnnotations(getById(diffCall.compareVersionId).annotations)
  /\ diffCall.outcome.value.annotationChanges = <<>>

\* no stored record of the base version carries a text field
NoTextField ==
  LET items == getById(diffCall.baseVersionId).annotations.items
  IN \A k \in 1 .. Len(items) : "text" \notin DOMAIN items[k]

OnePerPage(pages, n) ==
  /\ Len(pages) = n
  /\ \A k \in 1 .. Len(pages) : pages[k].pageIndex = k - 1

\* C28: page text is extracted page by page in ascending order. A page whose
\* extraction fails gets the empty string, the pages before it keep their
\* text, the commit goes on and later pages are still extracted, so the
\* snapshot handed to the store has exactly one entry per page, in page order.
C28_ExtractionDegradesPerPage ==
  /\ [][\A ok \in BOOLEAN :
          ExtractPage(ok) =>
            /\ commit'.pc = "extract"
            /\ isCommitting'
            /\ SubSeq(commit'.pages, 1, Len(commit.pages)) = commit.pages
            /\ commit'.pages[Len(commit'.pages)] =
                 [pageIndex |-> Len(commit.pages),
                  text |-> IF ok
                           THEN joinLines(textLinesForPageIndex(Len(commit.pages)))
                           ELSE <<>>]]_vars
  /\ [](commit.pc = "verAdd" =>
          OnePerPage(parseTextContent(commit.version.textContent),
                     ExtractPageCount))

\* the loop is over, the second page failed and the pages around it hold text
C28_Witness ==
  /\ commit.pc = "verAdd"
  /\ LET pages == parseTextContent(commit.version.textContent)
     IN /\ pages[1].text # <<>>
        /\ pages[2].text = <<>>
        /\ pages[3].text # <<>>
        /\ pages[ExtractPageCount].text # <<>>

\* C29: every stored version, the first upload's too, holds a page text
\* snapshot with exactly one entry per page of the document, in page order.
C29_EveryVersionHasPageTexts ==
  \A v \in dbVersions :
    /\ v.textContent.shape = "array"
    /\ OnePerPage(parseTextContent(v.textContent), totalPageCount)

\* C37: referential integrity of the store: each stored document's
\* currentVersionId is null or the id of a stored version of that document.
C37_ReferentialIntegrity ==
  \A d \in dbDocuments :
    \/ d.currentVersionId = None
    \/ \E v \in dbVersions : v.id = d.currentVersionId /\ v.documentId = d.id

\* C33: commits are serialized: handleCommit starts only while no commit is
\* in flight (the committing flag is up exactly while one is), so two runs
\* never hold the same next version number at once.
C33_CommitsSerialized ==
  /\ [](isCommitting <=> commit.pc # "idle")
  /\ [][lastOp' = "HandleCommit" =>
          /\ ~isCommitting
          /\ commit.pc = "idle"
          /\ isCommitting'
          /\ commit'.pc = "export"
          /\ \A v \in dbVersions :
               v.documentId = commit'.documentId /\ v.id \in VersionIds
                 => v.versionNumber < commit'.versionNumber]_vars

\* a second commit starts after the first one has finished
C33_Witness ==
  /\ lastOp = "HandleCommit"
  /\ commit.pc = "export"
  /\ Len(versions) >= 2

\* C32: no annotation change is lost to a commit that did not capture it:
\* when a commit succeeds, either the snapshot it stored shows the tracker's
\* annotations as they are at that moment, or the records of the changes made
\* since the snapshot was taken are still in pendingChanges.
C32_NoChangeLostToCommit ==
  [][lastOp' = "CommitDone" /\ commit.pc = "docUpdate" =>
       \/ commit.version.annotations = annotationsJson(annotations)
       \/ pendingChanges' # <<>>]_vars

\* ------------------------------------------ handleCommit under fair scheduling
\* One document is on screen; commits, renderer events and the reload that
\* follows a commit happen.  Every call handleCommit awaits (exportPDF,
\* extractText, db.versions.add, db.documents.update) eventually resolves or
\* rejects: the step that follows the pending await is taken.
CommitStep ==
  \/ CommitFail
  \/ CommitExported
  \/ CommitTextExtracted({})
  \/ CommitVerAdded
  \/ CommitDone

CommitLiveNext ==
  \/ \E tpl \in RawTemplates :
       /\ EventBudget(MaxChanges)
       /\ FreshId(UsedPspdfkitIds) \in PspdfkitIds
       /\ RendererCreate(tpl)
  \/ \E old \in rAnns, edit \in RawEdits :
       EventBudget(MaxChanges) /\ RendererUpdate(old, edit)
  \/ \E raw \in rAnns :
       EventBudget(MaxChanges) /\ RendererDelete(raw)
  \/ \E m \in Messages : HandleCommitIgnored(m)
  \/ \E m \in Messages : HandleCommit(m)
  \/ CommitExported
  \/ CommitTextExtracted({})
  \/ CommitVerAdded
  \/ CommitDone
  \/ CommitFail
  \/ LoadFetched
  \/ LoadFail
  \/ \E ok \in BOOLEAN : SyncPage(ok)

CommitLiveSpec ==
  TrackerInit /\ [][CommitLiveNext]_vars /\ WF_vars(CommitStep)

ReloadRaw ==
  [id |-> 1, type |-> "pspdfkit/highlight", pageIndex |-> 0, text |-> "",
   contents |-> "", note |-> "", color |-> NoColor]

ReloadVersion ==
  BuildVersion([documentId |-> 1, versionNumber |-> 2, message |-> <<"m">>,
                pdfData |-> {ReloadRaw},
                annotations |-> annotationsJson(<<toTrackedAnnotation(ReloadRaw, 1)>>)],
               2, extractText({}))

ReloadInit ==
  /\ dbDocuments = {[id |-> 1, currentVersionId |-> 2]}
  /\ dbVersions = {InitialVersion(1, 1), ReloadVersion}
  /\ currentDocument = 1
  /\ versions = addVersion(<<Metadata(InitialVersion(1, 1))>>, Metadata(ReloadVersion))
  /\ currentVersionId = 2
  /\ annotations = <<toTrackedAnnotation(ReloadRaw, 1)>>
  /\ pendingChanges = <<>>
  /\ switchTarget = None
  /\ isCommitting = FALSE
  /\ commit = Idle
  /\ upload = Idle
  /\ load = [pc |-> "fetch", ver |-> 2, page |-> 0, buf |-> <<>>]
  /\ rAnns = {}
  /\ appInstance = 1
  /\ comparing = Idle
  /\ diffResult = NoDiff
  /\ diffCall = NoCall
  /\ listDelete = Idle
  /\ stale = {}
  /\ storeDocuments = {}
  /\ storeVersions = <<>>
  /\ requests = {}
  /\ lastOp = "CommitDone"

ReloadNext ==
  \/ LoadFetched
  \/ LoadFail
  \/ \E ok \in BOOLEAN : SyncPage(ok)
  \/ \E s \in stale, ok \in BOOLEAN : StaleSyncPage(s, ok)
  \/ \E old \in rAnns, edit \in RawEdits :
       EventBudget(MaxChanges) /\ RendererUpdate(old, edit)
  \/ \E raw \in rAnns :
       EventBudget(MaxChanges) /\ RendererDelete(raw)
  \/ \E id \in VersionIds : HandleVersionClick(id)
  \/ HandleDiscardAndSwitch
  \/ CancelSwitch

ReloadSpec == ReloadInit /\ [][ReloadNext]_vars

\* C35: a superseded viewer load never leaks into the current state: once
\* the displayed version has changed, the steps of the earlier load neither
\* replace the tracker's annotations nor hand their instance to the page.
C35_SupersededLoadIsInert ==
  [][lastOp' = "StaleSyncPage" =>
       /\ annotations' = annotations
       /\ appInstance' = appInstance]_vars

\* ------------------------------------------- events during the first sync
\* A document of SyncPageCount pages has just been uploaded and its viewer
\* starts loading; the user annotates while the page-by-page sync runs (the
\* listeners are attached before the sync starts).  Every page read succeeds.
SyncPageCount == 2

\* the state after processFile
SyncInit ==
  /\ dbDocuments = {[id |-> 1, currentVersionId |-> 1]}
  /\ dbVersions = {InitialVersion(1, 1)}
  /\ currentDocument = 1
  /\ versions = <<Metadata(InitialVersion(1, 1))>>
  /\ currentVersionId = 1
  /\ annotations = <<>>
  /\ pendingChanges = <<>>
  /\ switchTarget = None
  /\ isCommitting = FALSE
  /\ commit = Idle
  /\ upload = Idle
  /\ load = [pc |-> "fetch", ver |-> 1, page |-> 0, buf |-> <<>>]
  /\ rAnns = {}
  /\ appInstance = None
  /\ comparing = Idle
  /\ diffResult = NoDiff
  /\ diffCall = NoCall
  /\ listDelete = Idle
  /\ stale = {}
  /\ storeDocuments = {}
  /\ storeVersions = <<>>
  /\ requests = {}
  /\ lastOp = "UploadDone"

SyncNext ==
  \/ LoadFetched
  \/ LoadFail
  \/ SyncPageOf(TRUE, SyncPageCount)
  \/ \E tpl \in TrackerTemplates :
       /\ EventBudget(MaxTrackerChanges)
       /\ FreshId(UsedPspdfkitIds) \in TrackerPspdfkitIds
       /\ RendererCreate(tpl)
  \/ \E old \in rAnns, edit \in TrackerEdits :
       EventBudget(MaxTrackerChanges) /\ RendererUpdate(old, edit)
  \/ \E raw \in rAnns :
       EventBudget(MaxTrackerChanges) /\ RendererDelete(raw)

SyncSpec == SyncInit /\ [][SyncNext]_vars

\* C34: after a document load completes the tracker mirrors the renderer:
\* once the sync has replaced the tracker's list, the renderer ids of the
\* tracked annotations are exactly the annotations the renderer holds, the
\* ones created, changed or deleted while the sync was running included.
C34_TrackerMirrorsRendererAfterSync ==
  (lastOp = "SyncPage" /\ load.pc = "ready") =>
    { annotations[i].pspdfkitId : i \in 1 .. Len(annotations) }
      = { a.id : a \in rAnns }

\* ------------------------------------------------------ AnnotationList
\* AnnotationList.handleDelete up to `await instance.getAnnotations(pageIndex)`
\* (the page has handed the list a live instance)
ListHandleDelete(annotation) ==
  /\ listDelete.pc = "idle"
  /\ InstanceLive
  /\ \E i \in 1 .. Len(annotations) : annotations[i] = annotation
  /\ listDelete' = [pc |-> "read", annotation |-> annotation]
  /\ lastOp' = "ListHandleDelete"
  /\ UNCHANGED <<dbVars, currentDocument, versions, currentVersionId, trackerVars,
                 switchTarget, isCommitting, commit, upload, viewerVars,
                 comparing, diffResult, diffCall, storeDocuments, storeVersions,
                 requests>>

\* the list's own store update: removeAnnotation(annotation.id) and
\* addChange({ action: 'delete', ... }) from the annotation it was clicked on
listRemoved(anns, annotation) == removeAnnotation(anns, annotation.id)

listRecorded(changes, annotation) ==
  addChange(changes, ChangeRecord(annotation.id, "delete", annotation.type,
                                  annotation.pageIndex, annotation.contents))

\* how the event of instance.delete(pspdfkitAnn) reaches handleAnnotationDelete:
\* inside the call (before the list's store update), after the handler has
\* returned, or never (the delete rejects; `.catch(() => {})`)
Deliveries == {"before", "after", "never"}

\* getAnnotations settled.  It rejected (ok = FALSE): the catch block, then the
\* store update.  It resolved: the first page annotation with the tracked
\* pspdfkitId, if any, is passed to instance.delete (not awaited), then the
\* store update, setConfirmDeleteId(null), toast.success.
ListDeleteResumed(ok, delivery) ==
  /\ listDelete.pc = "read"
  /\ LET annotation == listDelete.annotation
         found == { a \in rAnns : /\ a.pageIndex = annotation.pageIndex
                                  /\ a.id = annotation.pspdfkitId }
     IN IF ok /\ found # {} /\ delivery = "before"
        THEN LET raw == CHOOSE a \in found : TRUE
                 anns == handleAnnotationDeleteAnns(annotations, raw)
                 changes == handleAnnotationDeleteChanges(annotations,
                                                          pendingChanges, raw)
             IN /\ rAnns' = rAnns \ {raw}
                /\ annotations' = listRemoved(anns, annotation)
                /\ pendingChanges' = listRecorded(changes, annotation)
                /\ listDelete' = Idle
        ELSE /\ annotations' = listRemoved(annotations, annotation)
             /\ pendingChanges' = listRecorded(pendingChanges, annotation)
             /\ UNCHANGED rAnns
             /\ listDelete' = IF ok /\ found # {} /\ delivery = "after"
                              THEN [pc |-> "event",
                                    raw |-> CHOOSE a \in found : TRUE]
                              ELSE Idle
  /\ lastOp' = "ListDeleteResumed"
  /\ UNCHANGED <<dbVars, currentDocument, versions, currentVersionId, switchTarget,
                 isCommitting, commit, upload, load, appInstance, stale,
                 comparing, diffResult, diffCall, storeDocuments, storeVersions,
                 requests>>

\* the renderer has deleted the annotation and calls handleAnnotationDelete
ListDeleteEvent ==
  /\ listDelete.pc = "event"
  /\ rAnns' = rAnns \ {listDelete.raw}
  /\ annotations' = handleAnnotationDeleteAnns(annotations, listDelete.raw)
  /\ pendingChanges' = handleAnnotationDeleteChanges(annotations, pendingChanges,
                                                     listDelete.raw)
  /\ listDelete' = Idle
  /\ lastOp' = "ListDeleteEvent"
  /\ UNCHANGED <<dbVars, currentDocument, versions, currentVersionId, switchTarget,
                 isCommitting, commit, upload, load, appInstance, stale,
                 comparing, diffResult, diffCall, storeDocuments, storeVersions,
                 requests>>

\* One uploaded document is on screen and loaded; the user annotates in the
\* viewer and deletes through the annotation list.
ListNext ==
  \/ \E tpl \in TrackerTemplates :
       /\ EventBudget(MaxTrackerChanges)
       /\ FreshId(UsedPspdfkitIds) \in TrackerPspdfkitIds
       /\ RendererCreate(tpl)
  \/ \E old \in rAnns, edit \in TrackerEdits :
       EventBudget(MaxTrackerChanges) /\ RendererUpdate(old, edit)
  \/ \E raw \in rAnns :
       EventBudget(MaxTrackerChanges) /\ RendererDelete(raw)
  \/ \E i \in 1 .. Len(annotations) :
       EventBudget(MaxTrackerChanges) /\ ListHandleDelete(annotations[i])
  \/ \E ok \in BOOLEAN, delivery \in Deliveries : ListDeleteResumed(ok, delivery)
  \/ ListDeleteEvent

ListSpec == TrackerInit /\ [][ListNext]_vars

\* C36: deleting an annotation through the annotation list leaves exactly one
\* delete record for it in pendingChanges, however the renderer's own delete
\* event is ordered with the list's store update: no annotation ever has two
\* delete records.
C36_OneDeleteRecordPerAnnotation ==
  \A i, j \in 1 .. Len(pendingChanges) :
    (/\ pendingChanges[i].action = "delete"
     /\ pendingChanges[j].action = "delete"
     /\ pendingChanges[i].annotationId = pendingChanges[j].annotationId)
      => i = j

\* ------------------------------------------------------------ app/api
\* The mock backend: the in-memory store and the two POST route handlers.
\* A handler runs from one await to the next; several requests are in flight
\* at once.
MaxApiVersions == 3
MaxRequests == 2

\* file.size > 50 * 1024 * 1024 is refused
MaxFileSize == 52428800

\* the multipart bodies sent to POST /api/documents
Files ==
  { [present |-> FALSE],
    [present |-> TRUE, type |-> "application/pdf", pdfName |-> FALSE, size |-> 1024],
    [present |-> TRUE, type |-> "", pdfName |-> TRUE, size |-> MaxFileSize],
    [present |-> TRUE, type |-> "text/plain", pdfName |-> FALSE, size |-> 1024],
    [present |-> TRUE, type |-> "application/pdf", pdfName |-> TRUE,
     size |-> MaxFileSize + 1] }

\* the JSON bodies sent to POST /api/documents/:id/versions; pdfData is
\* absent, base64, or a string atob() throws on
Bodies ==
  { [message |-> [kind |-> "absent"], pdfData |-> "absent"],
    [message |-> [kind |-> "number"], pdfData |-> "absent"],
    [message |-> [kind |-> "string", chars |-> <<>>], pdfData |-> "base64"],
    [message |-> [kind |-> "string", chars |-> <<" ">>], pdfData |-> "absent"],
    [message |-> [kind |-> "string", chars |-> <<" ", "m", " ">>],
     pdfData |-> "absent"],
    [message |-> [kind |-> "string", chars |-> <<"m">>], pdfData |-> "base64"],
    [message |-> [kind |-> "string", chars |-> <<"m">>], pdfData |-> "garbage"] }

RECURSIVE InsertAsc(_, _)
\* v placed after every element whose versionNumber is <= its own (stable)
InsertAsc(sorted, v) ==
  IF sorted = <<>> THEN <<v>>
  ELSE IF Head(sorted).versionNumber <= v.versionNumber
       THEN <<Head(sorted)>> \o InsertAsc(Tail(sorted), v)
       ELSE <<v>> \o sorted

RECURSIVE SortAsc(_)
\* .sort((a, b) => a.versionNumber - b.versionNumber), a stable sort
SortAsc(s) ==
  IF s = <<>> THEN <<>>
  ELSE InsertAsc(SortAsc(SubSeq(s, 1, Len(s) - 1)), s[Len(s)])

\* store.getVersions(documentId)
getVersions(vs, documentId) ==
  SortAsc(PickSeq(vs, { i \in 1 .. Len(vs) : vs[i].documentId = documentId }))

\* a store that answers with the first version's number
getLatestVersionNumberOfFirst(vs, documentId) ==
  LET sorted == getVersions(vs, documentId)
  IN IF Len(sorted) > 0 THEN sorted[1].versionNumber ELSE 0

\* store.getLatestVersionNumber(documentId)
getLatestVersionNumber(vs, documentId) ==
  LET sorted == getVersions(vs, documentId)
  IN IF Len(sorted) > 0 THEN sorted[Len(sorted)].versionNumber ELSE 0

StoredDocumentIds == { d.id : d \in storeDocuments }

UsedApiIds ==
  StoredDocumentIds \cup { storeVersions[i].id : i \in 1 .. Len(storeVersions) }

\* a request enters a route handler and suspends at its first await
NewRequest(fields) ==
  /\ Cardinality(requests) < MaxRequests
  /\ requests' = requests \cup {fields @@ [rid |-> FreshId({ r.rid : r \in requests })]}

\* POST /api/documents: up to `await request.formData()`
PostDocument(file) ==
  /\ NewRequest([route |-> "documents", pc |-> "formData", file |-> file])
  /\ lastOp' = "PostDocument"
  /\ UNCHANGED <<dbVars, currentDocument, versions, currentVersionId, trackerVars,
                 switchTarget, isCommitting, commit, upload, viewerVars,
                 comparing, diffResult, diffCall, listDelete, storeDocuments,
                 storeVersions>>

\* the three tests on the uploaded file
FileAccepted(file) ==
  /\ file.present
  /\ ~(file.type # "application/pdf" /\ ~file.pdfName)
  /\ ~(file.size > MaxFileSize)

\* formData resolved: 400 for a missing, non-PDF or oversized file, else
\* `await file.arrayBuffer()`
DocumentFormRead(r) ==
  /\ r \in requests
  /\ r.route = "documents" /\ r.pc = "formData"
  /\ IF FileAccepted(r.file)
     THEN /\ requests' = (requests \ {r}) \cup {[r EXCEPT !.pc = "arrayBuffer"]}
          /\ lastOp' = "DocumentFormRead"
     ELSE /\ requests' = requests \ {r}
          /\ lastOp' = "Api400"
  /\ UNCHANGED <<dbVars, currentDocument, versions, currentVersionId, trackerVars,
                 switchTarget, isCommitting, commit, upload, viewerVars,
                 comparing, diffResult, diffCall, listDelete, storeDocuments,
                 storeVersions>>

\* arrayBuffer resolved: the document and its version 1 are stored; 201
DocumentStored(r) ==
  /\ r \in requests
  /\ r.route = "documents" /\ r.pc = "arrayBuffer"
  /\ LET ids == FreshIds(UsedApiIds, 2)
         docId == ids[1]
         versionId == ids[2]
     IN /\ storeDocuments' = storeDocuments
                               \cup {[id |-> docId, currentVersionId |-> versionId]}
        /\ storeVersions' = Append(storeVersions,
                                   [id |-> versionId, documentId |-> docId,
                                    versionNumber |-> 1,
                                    message |-> InitialUploadMessage])
  /\ requests' = requests \ {r}
  /\ lastOp' = "Api201"
  /\ UNCHANGED <<dbVars, currentDocument, versions, currentVersionId, trackerVars,
                 switchTarget, isCommitting, commit, upload, viewerVars,
                 comparing, diffResult, diffCall, listDelete>>

\* POST /api/documents/:id/versions: up to `await params`
PostVersion(id, body) ==
  /\ NewRequest([route |-> "versions", pc |-> "params", id |-> id, body |-> body])
  /\ lastOp' = "PostVersion"
  /\ UNCHANGED <<dbVars, currentDocument, versions, currentVersionId, trackerVars,
                 switchTarget, isCommitting, commit, upload, viewerVars,
                 comparing, diffResult, diffCall, listDelete, storeDocuments,
                 storeVersions>>

\* params resolved: store.documents.get(id); 404 for an unknown id, else
\* `await request.json()`
VersionDocumentLooked(r) ==
  /\ r \in requests
  /\ r.route = "versions" /\ r.pc = "params"
  /\ IF r.id \in StoredDocumentIds
     THEN /\ requests' = (requests \ {r}) \cup {[r EXCEPT !.pc = "json"]}
          /\ lastOp' = "VersionDocumentLooked"
     ELSE /\ requests' = requests \ {r}
          /\ lastOp' = "Api404"
  /\ UNCHANGED <<dbVars, currentDocument, versions, currentVersionId, trackerVars,
                 switchTarget, isCommitting, commit, upload, viewerVars,
                 comparing, diffResult, diffCall, listDelete, storeDocuments,
                 storeVersions>>

\* !body.message || typeof body.message !== 'string' || !body.message.trim()
MessageRefused(message) ==
  \/ message.kind = "absent"
  \/ message.kind # "string"
  \/ message.chars = <<>>
  \/ trim(message.chars) = <<>>

\* the body is read: 400 for a refused message; atob() throws on a pdfData
\* that is not base64 (500, from the catch block); else the version is stored
\* under the next number and becomes the document's current one; 201
VersionBodyRead(r) ==
  /\ r \in requests
  /\ r.route = "versions" /\ r.pc = "json"
  /\ requests' = requests \ {r}
  /\ IF MessageRefused(r.body.message)
     THEN /\ lastOp' = "Api400"
          /\ UNCHANGED <<storeDocuments, storeVersions>>
     ELSE IF r.body.pdfData = "garbage"
     THEN /\ lastOp' = "Api500"
          /\ UNCHANGED <<storeDocuments, storeVersions>>
     ELSE LET nextNumber == getLatestVersionNumber(storeVersions, r.id) + 1
              versionId == FreshId(UsedApiIds)
          IN /\ storeVersions' = Append(storeVersions,
                                        [id |-> versionId, documentId |-> r.id,
                                         versionNumber |-> nextNumber,
                                         message |-> trim(r.body.message.chars)])
             /\ storeDocuments' =
                  { IF d.id = r.id THEN [d EXCEPT !.currentVersionId = versionId]
                    ELSE d : d \in storeDocuments }
             /\ lastOp' = "Api201"
  /\ UNCHANGED <<dbVars, currentDocument, versions, currentVersionId, trackerVars,
                 switchTarget, isCommitting, commit, upload, viewerVars,
                 comparing, diffResult, diffCall, listDelete>>

\* an awaited read of the request rejects (a body that is no form data, no
\* JSON): the catch block answers 500
RequestFailed(r) ==
  /\ r \in requests
  /\ r.pc \in {"formData", "arrayBuffer", "json"}
  /\ requests' = requests \ {r}
  /\ lastOp' = "Api500"
  /\ UNCHANGED <<dbVars, currentDocument, versions, currentVersionId, trackerVars,
                 switchTarget, isCommitting, commit, upload, viewerVars,
                 comparing, diffResult, diffCall, listDelete, storeDocuments,
                 storeVersions>>

\* the server has just started: the store is empty
ApiInit == Init

\* ids a client may name: those of stored documents and one that is not stored
RequestedIds == StoredDocumentIds \cup {FreshId(UsedApiIds)}

ApiNext ==
  \/ \E file \in Files :
       Len(storeVersions) + Cardinality(requests) < MaxApiVersions
         /\ PostDocument(file)
  \/ \E r \in requests : DocumentFormRead(r)
  \/ \E r \in requests : DocumentStored(r)
  \/ \E id \in RequestedIds, body \in Bodies :
       Len(storeVersions) + Cardinality(requests) < MaxApiVersions
         /\ PostVersion(id, body)
  \/ \E r \in requests : VersionDocumentLooked(r)
  \/ \E r \in requests : VersionBodyRead(r)
  \/ \E r \in requests : RequestFailed(r)

ApiSpec == ApiInit /\ [][ApiNext]_vars

ApiVersionsOf(documentId) ==
  { storeVersions[i] : i \in { j \in 1 .. Len(storeVersions) :
                                 storeVersions[j].documentId = documentId } }

\* C31: in the mock backend, every document's versions are numbered 1..N
\* without gaps or duplicates, the document's currentVersionId is the id of
\* its highest-numbered version, and a request that is answered with an error
\* changes nothing in the store.
C31_ApiVersionsDense ==
  /\ [](\A d \in storeDocuments :
          LET vs == ApiVersionsOf(d.id)
          IN /\ { v.versionNumber : v \in vs } = 1 .. Cardinality(vs)
             /\ vs # {}
             /\ \E v \in vs : /\ v.id = d.currentVersionId
                              /\ v.versionNumber = Cardinality(vs))
  /\ [][lastOp' \in {"Api400", "Api404", "Api500"} =>
          UNCHANGED <<storeDocuments, storeVersions>>]_vars

\* a document holds two versions and a request has just been refused
C31_Witness ==
  /\ \E d \in storeDocuments : Cardinality(ApiVersionsOf(d.id)) >= 2
  /\ lastOp = "Api400"

====
